---- MODULE Spec2Model ----
(***************************************************************************)
(* Technomaster: the party (match) engine.                                 *)
(*                                                                         *)
(* The model covers the party screen (src/js/party-screen.js), which owns  *)
(* the field map and the two hands and receives the browser's drag, drop   *)
(* and click events, and the party game orchestrator                       *)
(* (src/js/party-game-orchestrator.js), which runs the turn state machine, *)
(* the conflict analysis, the battle, the instant captures, the combo      *)
(* chain and the end check.  The orchestrator re-reads the screen's field  *)
(* and hands (syncFieldState) before every step and shares the card        *)
(* objects with it, so there is one field and one pair of hands.           *)
(*                                                                         *)
(* One asynchronous chain of the orchestrator is one control position pc;  *)
(* it advances at the awaits of the code.  The browser's events interleave *)
(* with it at every position.                                              *)
(***************************************************************************)
EXTENDS Integers, FiniteSets, Sequences, TLC

\* ---------------------------------------------------------------- constants

HAND_SIZE == 5
GridSize == 4
StatMultiplier == 16

\* Bounds of the explored inputs: a mover picks one of the first MaxCardChoice
\* unused cards of the hand; the player drops on one of the first
\* MaxCellChoice open cells, the rival moves to one of the first
\* MaxAiCellChoice open cells.
MaxCardChoice == 1
MaxCellChoice == 1
MaxAiCellChoice == 1

Cells == 0 .. (GridSize * GridSize - 1)
NoCell == 0 - 1

directions == <<
    [name |-> "topLeft",     rowDelta |-> 0 - 1, colDelta |-> 0 - 1, activeArrow |-> "arrowTopLeft",     reactiveArrow |-> "arrowBottomRight"],
    [name |-> "top",         rowDelta |-> 0 - 1, colDelta |-> 0,     activeArrow |-> "arrowTop",         reactiveArrow |-> "arrowBottom"],
    [name |-> "topRight",    rowDelta |-> 0 - 1, colDelta |-> 1,     activeArrow |-> "arrowTopRight",    reactiveArrow |-> "arrowBottomLeft"],
    [name |-> "right",       rowDelta |-> 0,     colDelta |-> 1,     activeArrow |-> "arrowRight",       reactiveArrow |-> "arrowLeft"],
    [name |-> "bottomRight", rowDelta |-> 1,     colDelta |-> 1,     activeArrow |-> "arrowBottomRight", reactiveArrow |-> "arrowTopLeft"],
    [name |-> "bottom",      rowDelta |-> 1,     colDelta |-> 0,     activeArrow |-> "arrowBottom",      reactiveArrow |-> "arrowTop"],
    [name |-> "bottomLeft",  rowDelta |-> 1,     colDelta |-> 0 - 1, activeArrow |-> "arrowBottomLeft",  reactiveArrow |-> "arrowTopRight"],
    [name |-> "left",        rowDelta |-> 0,     colDelta |-> 0 - 1, activeArrow |-> "arrowLeft",        reactiveArrow |-> "arrowRight"] >>

\* ---------------------------------------------------------------- cards

\* A hand card as the party payload carries it; arrows is the set of the
\* arrow fields that are true.
Card(id, arrows, attackLevel, attackType, mechanicalDefense, electricalDefense) ==
    [id |-> id, arrows |-> arrows, attackLevel |-> attackLevel, attackType |-> attackType,
     mechanicalDefense |-> mechanicalDefense, electricalDefense |-> electricalDefense,
     cardLevel |-> 1, used |-> FALSE]

\* The highest level of a card.
MAX_CARD_LEVEL == 2

\* The card at the level given, one of the levels 0, 1 and 2 of the catalog;
\* the payload carries the level as a string, which Number(card.cardLevel || 1)
\* reads as it is.
AtLevel(card, level) == [card EXCEPT !.cardLevel = level]

\* The two hands explored: HAND_SIZE cards each, ids 1..5 the player's,
\* 6..10 the opponent's.
PlayerDeck == <<
    AtLevel(Card(1, {"arrowRight", "arrowBottom", "arrowLeft"}, 1, "P", 0, 1), 0),
    AtLevel(Card(2, {"arrowLeft", "arrowTop", "arrowRight", "arrowTopLeft"}, 1, "X", 1, 0),
            MAX_CARD_LEVEL),
    Card(3, {"arrowLeft", "arrowTopRight", "arrowTop"}, 0, "A", 1, 1),
    Card(4, {"arrowTopLeft", "arrowTop", "arrowLeft", "arrowBottom"}, 1, "E", 0, 0),
    Card(5, {"arrowRight", "arrowTopRight"}, 0, "P", 1, 0) >>

OpponentDeck == <<
    Card(6, {"arrowLeft", "arrowRight", "arrowBottom"}, 1, "E", 1, 0),
    Card(7, {"arrowTop", "arrowLeft", "arrowBottomRight"}, 0, "P", 0, 1),
    AtLevel(Card(8, {"arrowLeft", "arrowTop", "arrowTopLeft", "arrowRight"}, 1, "A", 1, 1),
            MAX_CARD_LEVEL),
    Card(9, {"arrowTopRight", "arrowBottom"}, 1, "X", 0, 0),
    Card(10, {"arrowLeft", "arrowTop", "arrowTopRight"}, 1, "P", 1, 1) >>

\* The blocked cells explored: renderField blocks 0 to 6 random cells.
UnavailableOptions == { {}, {3, 7, 11, 13, 14, 15} }

GameModes == {"standard", "hard", "hardcore"}

NoCard == [id |-> 0, arrows |-> {}, attackLevel |-> 0, attackType |-> "P",
           mechanicalDefense |-> 0, electricalDefense |-> 0, cardLevel |-> 0,
           owner |-> "none"]

\* placeCardOnField stores { ...cardData, owner }.
FieldCard(card, owner) ==
    [id |-> card.id, arrows |-> card.arrows, attackLevel |-> card.attackLevel,
     attackType |-> card.attackType, mechanicalDefense |-> card.mechanicalDefense,
     electricalDefense |-> card.electricalDefense, cardLevel |-> card.cardLevel,
     owner |-> owner]

\* ---------------------------------------------------------------- state

VARIABLES
    playerHand,        \* partyScreenState.playerHand = state.playerHand
    opponentHand,      \* partyScreenState.opponentHand = state.opponentHand
    fieldCards,        \* partyScreenState.fieldCards: cell index -> card
    unavailableCells,  \* the cells blocked for the whole match
    gameMode,          \* state.gameMode
    currentTurn,       \* state.currentTurn: "none" (null), "player", "rival"
    turnNumber,        \* state.turnNumber
    isGameActive,      \* state.isGameActive
    isProcessingMove,  \* state.isProcessingMove
    mode,              \* partyScreenState.mode
    draggedCardData,   \* index in playerHand of the dragged card, 0 for null
    selectableCells,   \* cells carrying the class 'selectable'
    pc,                \* position of the orchestrator's chain
    move,              \* locals of processMoveConsequences
    battle,            \* locals of executeBattle
    combo,             \* arguments of the pending processComboChain call
    result,            \* the game_end event
    activeParty,       \* userData.activeParty, the persisted snapshot
    lastEvent,         \* the outcome of the latest step: the game event it logged
                       \* or the branch its handler took
    userCards,         \* userData.cards, the player's collection: id -> cardLevel
    levelUp,           \* processLevelUp's outcome for each card of playerHand
    probe              \* a call of one of the orchestrator's pure helpers: its
                       \* name, its arguments and, once it returned, its result

matchVars == <<playerHand, opponentHand, fieldCards, unavailableCells, gameMode,
               currentTurn, turnNumber, isGameActive, isProcessingMove, mode,
               draggedCardData, selectableCells, pc, move, battle, combo, result,
               activeParty, lastEvent, userCards, levelUp>>

vars == <<matchVars, probe>>

NoMove == [cellIndex |-> NoCell, owner |-> "none", captures |-> <<>>, battles |-> <<>>,
           battleCapturedCells |-> <<>>, attackerLostBattle |-> FALSE]
NoBattle == [attackerCellIndex |-> NoCell, defenderCellIndex |-> NoCell,
             attackValue |-> 0, defenseValue |-> 0, attackRoll |-> 0, defenseRoll |-> 0]
NoCombo == [wave |-> <<>>, processedCells |-> {}, order |-> <<>>]
NoResult == [winner |-> "none", playerScore |-> 0, opponentScore |-> 0]
NoSnapshot == [saved |-> FALSE]
\* The collection before the match: the cards of the hand and one card that
\* stayed in the deck.
InitialUserCards ==
    [id \in {PlayerDeck[i].id : i \in 1 .. HAND_SIZE} \cup {11} |->
        IF \E i \in 1 .. HAND_SIZE : PlayerDeck[i].id = id
        THEN (CHOOSE c \in {PlayerDeck[i] : i \in 1 .. HAND_SIZE} : c.id = id).cardLevel
        ELSE 1]
NoLevelUp == [i \in 1 .. HAND_SIZE |-> "none"]
NoProbe == [fn |-> "none", done |-> FALSE]

\* ---------------------------------------------------------------- helpers

Max(a, b) == IF a >= b THEN a ELSE b
Min(a, b) == IF a <= b THEN a ELSE b

SeqToSet(s) == { s[k] : k \in 1 .. Len(s) }

\* getStatValue for the integer levels the cards carry.
getStatValue(value) ==
    IF value >= 0 /\ value <= 15 THEN value * StatMultiplier ELSE value

CellRow(index) == index \div GridSize
CellCol(index) == index % GridSize

\* getNeighborCell by index arithmetic alone, which wraps around the rows.
getNeighborCell_wrapping(index, direction) ==
    LET target == index + direction.rowDelta * 4 + direction.colDelta
    IN  IF target < 0 \/ target > 15 THEN NoCell ELSE target

getNeighborCell(index, direction) ==
    LET row == CellRow(index) + direction.rowDelta
        col == CellCol(index) + direction.colDelta
    IN  IF row < 0 \/ row > 3 \/ col < 0 \/ col > 3 THEN NoCell ELSE row * 4 + col

isEnemyCard(card, currentOwner) ==
    IF card.owner = "none" THEN FALSE ELSE card.owner # currentOwner

\* resolveDefenseValue that takes the mechanical defence for every attack.
resolveDefenseValue_mechanical(attacker, defender) ==
    getStatValue(defender.mechanicalDefense)

resolveDefenseValue(attacker, defender) ==
    LET mechanicalDefense == getStatValue(defender.mechanicalDefense)
        electricalDefense == getStatValue(defender.electricalDefense)
        defenderAttack == getStatValue(defender.attackLevel)
    IN  CASE attacker.attackType = "P" -> mechanicalDefense
          [] attacker.attackType \in {"E", "M"} -> electricalDefense
          [] attacker.attackType = "X" -> Min(mechanicalDefense, electricalDefense)
          [] attacker.attackType = "A" ->
                Min(Min(mechanicalDefense, electricalDefense), defenderAttack)
          [] OTHER -> mechanicalDefense

\* The unused cards of a hand, as indices in hand order.
UnusedIndices(hand) == { i \in 1 .. Len(hand) : ~hand[i].used }

\* The open cells: available and without a card.
EmptyCells(field, unavailable) == { c \in Cells : c \notin unavailable /\ field[c] = NoCard }

\* The n smallest elements of a set of integers.
RECURSIVE FirstN(_, _)
FirstN(S, n) ==
    IF n = 0 \/ S = {} THEN {}
    ELSE LET m == CHOOSE x \in S : \A y \in S : x <= y
         IN  {m} \cup FirstN(S \ {m}, n - 1)

\* markCardAsUsed that leaves the hand as it is.
markCardAsUsed_skipped(cardId, hand) == hand

\* markCardAsUsed: the first card of the hand with that id becomes used.
markCardAsUsed(cardId, hand) ==
    IF \E i \in 1 .. Len(hand) : hand[i].id = cardId
    THEN LET first == CHOOSE i \in 1 .. Len(hand) :
                        /\ hand[i].id = cardId
                        /\ \A j \in 1 .. Len(hand) : hand[j].id = cardId => i <= j
         IN  [hand EXCEPT ![first].used = TRUE]
    ELSE hand

\* ---------------------------------------------------------------- conflict analysis

\* The loop of analyzeNeighbors without the isEnemyCard test.
RECURSIVE analyzeFrom_anyOwner(_, _, _, _)
analyzeFrom_anyOwner(field, cellIndex, owner, k) ==
    IF k > Len(directions) THEN <<>>
    ELSE LET direction == directions[k]
             neighbor == getNeighborCell(cellIndex, direction)
             rest == analyzeFrom_anyOwner(field, cellIndex, owner, k + 1)
         IN  IF neighbor = NoCell THEN rest
             ELSE IF field[neighbor] = NoCard THEN rest
             ELSE IF direction.activeArrow \notin field[cellIndex].arrows THEN rest
             ELSE IF direction.reactiveArrow \notin field[neighbor].arrows
                  THEN <<[type |-> "capture", direction |-> direction.name,
                          defenderCellIndex |-> neighbor]>> \o rest
                  ELSE <<[type |-> "battle", direction |-> direction.name,
                          defenderCellIndex |-> neighbor]>> \o rest

\* analyzeNeighbors: the conflicts of the card at cellIndex, in direction order.
RECURSIVE analyzeFrom(_, _, _, _)
analyzeFrom(field, cellIndex, owner, k) ==
    IF k > Len(directions) THEN <<>>
    ELSE LET direction == directions[k]
             neighbor == getNeighborCell(cellIndex, direction)
             rest == analyzeFrom(field, cellIndex, owner, k + 1)
         IN  IF neighbor = NoCell THEN rest
             ELSE IF field[neighbor] = NoCard THEN rest
             ELSE IF ~isEnemyCard(field[neighbor], owner) THEN rest
             ELSE IF direction.activeArrow \notin field[cellIndex].arrows THEN rest
             ELSE IF direction.reactiveArrow \notin field[neighbor].arrows
                  THEN <<[type |-> "capture", direction |-> direction.name,
                          defenderCellIndex |-> neighbor]>> \o rest
                  ELSE <<[type |-> "battle", direction |-> direction.name,
                          defenderCellIndex |-> neighbor]>> \o rest

analyzeNeighbors(field, cellIndex, owner) ==
    IF field[cellIndex] = NoCard THEN <<>> ELSE analyzeFrom(field, cellIndex, owner, 1)

IsCapture(c) == c.type = "capture"
IsBattle(c) == c.type = "battle"

RECURSIVE DefenderCells(_)
DefenderCells(conflicts) ==
    IF conflicts = <<>> THEN <<>>
    ELSE <<Head(conflicts).defenderCellIndex>> \o DefenderCells(Tail(conflicts))

\* ---------------------------------------------------------------- AI target selector

\* aiAttackSelector.parseStat: the selector adds 8 to the scaled level.
parseStat(value) ==
    IF value >= 0 /\ value <= 15 THEN value * StatMultiplier + 8 ELSE value

selectorDefenseValue(attacker, target) ==
    LET mechanicalDefense == parseStat(target.mechanicalDefense)
        electricalDefense == parseStat(target.electricalDefense)
        targetAttackLevel == parseStat(target.attackLevel)
    IN  CASE attacker.attackType = "P" -> mechanicalDefense
          [] attacker.attackType \in {"E", "M"} -> electricalDefense
          [] attacker.attackType = "X" -> Min(mechanicalDefense, electricalDefense)
          [] attacker.attackType = "A" ->
                Min(Min(mechanicalDefense, electricalDefense), targetAttackLevel)
          [] OTHER -> mechanicalDefense

\* The targets passed by aiSelectsTarget carry no neighbors, so the combo
\* potential is countArrows(target).
targetWeight(field, attackerCellIndex, targetCell) ==
    (parseStat(field[attackerCellIndex].attackLevel)
        - selectorDefenseValue(field[attackerCellIndex], field[targetCell])) * 10
    + Cardinality(field[targetCell].arrows)

\* selectAiAttackTarget: the first target of strictly greatest weight.
selectAiAttackTarget(field, attackerCellIndex, targets) ==
    LET best == CHOOSE k \in 1 .. Len(targets) :
                  /\ \A j \in 1 .. Len(targets) :
                        targetWeight(field, attackerCellIndex, targets[j])
                            <= targetWeight(field, attackerCellIndex, targets[k])
                  /\ \A j \in 1 .. (k - 1) :
                        targetWeight(field, attackerCellIndex, targets[j])
                            < targetWeight(field, attackerCellIndex, targets[k])
    IN  targets[best]

\* The choice of the target that takes the cell submitted as it is.
findTarget_unchecked(battles, selectedId) == selectedId

\* battles.find(b => b.defenderCellIndex === selectedId) || battles[0], with
\* which playerSelectsTarget and aiSelectsTarget resolve the cell submitted.
findTarget(battles, selectedId) ==
    IF selectedId \in SeqToSet(battles) THEN selectedId ELSE battles[1]

\* aiSelectsTarget: the target the selector names, or the first one.
aiSelectsTarget(field, battles, attackerCellIndex) ==
    IF field[attackerCellIndex] = NoCard THEN battles[1]
    ELSE findTarget(battles, selectAiAttackTarget(field, attackerCellIndex, battles))

\* processBattles up to executeBattle: the cell fought, or none.  answer is
\* the cell the screen submits for the player; for the opponent the
\* selector of the repository is asked when useSelector holds, and otherwise
\* answer is what the selector installed in window.aiAttackSelector returns.
processBattles(field, battles, attackerCellIndex, attackerOwner, useSelector, answer) ==
    IF battles = <<>> THEN NoCell
    ELSE IF Len(battles) = 1 THEN battles[1]
    ELSE IF attackerOwner = "player" THEN findTarget(battles, answer)
    ELSE IF useSelector THEN aiSelectsTarget(field, battles, attackerCellIndex)
    ELSE findTarget(battles, answer)

\* ---------------------------------------------------------------- captures and combo

\* processInstantCaptures that changes no owner.
captureAll_none(field, captures, newOwner) == [field |-> field, capturedCells |-> <<>>]

\* processInstantCaptures: every listed defender changes owner.
RECURSIVE captureAll(_, _, _)
captureAll(field, captures, newOwner) ==
    IF captures = <<>> THEN [field |-> field, capturedCells |-> <<>>]
    ELSE LET c == Head(captures)
             f1 == IF field[c] = NoCard THEN field
                   ELSE [field EXCEPT ![c].owner = newOwner]
             rest == captureAll(f1, Tail(captures), newOwner)
         IN  [field |-> rest.field,
              capturedCells |-> (IF field[c] = NoCard THEN <<>> ELSE <<c>>)
                                    \o rest.capturedCells]

\* The inner loop of processComboChain without the isEnemyCard test: every
\* neighbour card in a direction of the card's own arrows is captured.
RECURSIVE comboFrom_anyOwner(_, _, _, _)
comboFrom_anyOwner(field, cellIndex, newOwner, k) ==
    IF k > Len(directions) THEN [field |-> field, newCaptures |-> <<>>]
    ELSE LET direction == directions[k]
             neighbor == getNeighborCell(cellIndex, direction)
             hit == /\ direction.activeArrow \in field[cellIndex].arrows
                    /\ neighbor # NoCell
                    /\ field[neighbor] # NoCard
             f1 == IF hit THEN [field EXCEPT ![neighbor].owner = newOwner] ELSE field
             rest == comboFrom_anyOwner(f1, cellIndex, newOwner, k + 1)
         IN  [field |-> rest.field,
              newCaptures |-> (IF hit THEN <<neighbor>> ELSE <<>>) \o rest.newCaptures]

\* The inner loop of processComboChain with the placement's rule: an enemy
\* neighbour is captured only if it has no arrow pointing back.
RECURSIVE comboFrom_unopposed(_, _, _, _)
comboFrom_unopposed(field, cellIndex, newOwner, k) ==
    IF k > Len(directions) THEN [field |-> field, newCaptures |-> <<>>]
    ELSE LET direction == directions[k]
             neighbor == getNeighborCell(cellIndex, direction)
             hit == /\ direction.activeArrow \in field[cellIndex].arrows
                    /\ neighbor # NoCell
                    /\ field[neighbor] # NoCard
                    /\ isEnemyCard(field[neighbor], newOwner)
                    /\ direction.reactiveArrow \notin field[neighbor].arrows
             f1 == IF hit THEN [field EXCEPT ![neighbor].owner = newOwner] ELSE field
             rest == comboFrom_unopposed(f1, cellIndex, newOwner, k + 1)
         IN  [field |-> rest.field,
              newCaptures |-> (IF hit THEN <<neighbor>> ELSE <<>>) \o rest.newCaptures]

\* The inner loop of processComboChain for one captured cell: every enemy
\* neighbour in a direction of the card's own arrows is captured.
RECURSIVE comboFrom(_, _, _, _)
comboFrom(field, cellIndex, newOwner, k) ==
    IF k > Len(directions) THEN [field |-> field, newCaptures |-> <<>>]
    ELSE LET direction == directions[k]
             neighbor == getNeighborCell(cellIndex, direction)
             hit == /\ direction.activeArrow \in field[cellIndex].arrows
                    /\ neighbor # NoCell
                    /\ field[neighbor] # NoCard
                    /\ isEnemyCard(field[neighbor], newOwner)
             f1 == IF hit THEN [field EXCEPT ![neighbor].owner = newOwner] ELSE field
             rest == comboFrom(f1, cellIndex, newOwner, k + 1)
         IN  [field |-> rest.field,
              newCaptures |-> (IF hit THEN <<neighbor>> ELSE <<>>) \o rest.newCaptures]

\* The outer loop of processComboChain: one wave over capturedCellIndices.
RECURSIVE comboWave(_, _, _, _)
comboWave(field, capturedCellIndices, newOwner, processedCells) ==
    IF capturedCellIndices = <<>>
    THEN [field |-> field, newCaptures |-> <<>>, processedCells |-> processedCells,
          order |-> <<>>]
    ELSE LET cellIndex == Head(capturedCellIndices)
         IN  IF cellIndex \in processedCells
             THEN comboWave(field, Tail(capturedCellIndices), newOwner, processedCells)
             ELSE LET one == IF field[cellIndex] = NoCard
                             THEN [field |-> field, newCaptures |-> <<>>]
                             ELSE comboFrom(field, cellIndex, newOwner, 1)
                      rest == comboWave(one.field, Tail(capturedCellIndices), newOwner,
                                        processedCells \cup {cellIndex})
                  IN  [field |-> rest.field,
                       newCaptures |-> one.newCaptures \o rest.newCaptures,
                       processedCells |-> rest.processedCells,
                       order |-> <<cellIndex>> \o rest.order]

\* ---------------------------------------------------------------- snapshot

\* saveActivePartySnapshot without the screen's state: the field is stored
\* empty.
Snapshot_emptyField ==
    [saved |-> TRUE, gameMode |-> gameMode, playerHand |-> playerHand,
     opponentHand |-> opponentHand, unavailableCells |-> unavailableCells,
     fieldCards |-> [c \in Cells |-> NoCard], currentTurn |-> currentTurn,
     turnNumber |-> turnNumber, isGameActive |-> isGameActive]

\* saveActivePartySnapshot: the snapshot written to userData.activeParty.
Snapshot ==
    [saved |-> TRUE, gameMode |-> gameMode, playerHand |-> playerHand,
     opponentHand |-> opponentHand, unavailableCells |-> unavailableCells,
     fieldCards |-> fieldCards, currentTurn |-> currentTurn,
     turnNumber |-> turnNumber, isGameActive |-> isGameActive]

\* saveActivePartySnapshot after the given turn fields were assigned.
SnapshotOf(turn, number, active) ==
    [Snapshot EXCEPT !.currentTurn = turn, !.turnNumber = number, !.isGameActive = active]

\* saveActivePartySnapshot without its try and catch: a failed save stops
\* the chain that awaits it.
saveActivePartySnapshot_uncaught(snapshot, saved) ==
    /\ saved
    /\ activeParty' = snapshot

\* saveActivePartySnapshot as its caller sees it: the snapshot is stored, or
\* the save fails (the storage API is missing, getUserData gives nothing, or
\* a call throws and the catch logs it) and the stored one stays.
saveActivePartySnapshot(snapshot, saved) ==
    activeParty' = (IF saved THEN snapshot ELSE activeParty)

\* ---------------------------------------------------------------- initial state

Init ==
    /\ playerHand = PlayerDeck
    /\ opponentHand = OpponentDeck
    /\ fieldCards = [c \in Cells |-> NoCard]
    /\ unavailableCells \in UnavailableOptions
    /\ gameMode \in GameModes
    /\ currentTurn = "none"
    /\ turnNumber = 0
    /\ isGameActive = FALSE
    /\ isProcessingMove = FALSE
    /\ mode = "loading"
    /\ draggedCardData = 0
    /\ selectableCells = {}
    /\ pc = "init"
    /\ move = NoMove
    /\ battle = NoBattle
    /\ combo = NoCombo
    /\ result = NoResult
    /\ activeParty = NoSnapshot
    /\ lastEvent = "none"
    /\ userCards = InitialUserCards
    /\ levelUp = NoLevelUp
    /\ probe = NoProbe

\* ---------------------------------------------------------------- turns

\* The coin flip of start that a loaded coin decides in every mode.
coinFlipOutcomes_fair(gameModeOfParty) == BOOLEAN

\* The coin flip of start: true gives the first turn to the player; the
\* hardcore mode sets it to true, the other modes draw it.
coinFlipOutcomes(gameModeOfParty) ==
    IF gameModeOfParty = "hardcore" THEN {TRUE} ELSE BOOLEAN

\* start: the coin flip, the game_start event and the first snapshot, whose
\* save succeeds or fails as saved says.
StartSaving(saved) ==
    /\ UNCHANGED <<probe, userCards, levelUp>>
    /\ pc = "init"
    /\ \E coinFlip \in coinFlipOutcomes(gameMode) :
          /\ currentTurn' = (IF coinFlip THEN "player" ELSE "rival")
          /\ saveActivePartySnapshot(
                SnapshotOf(IF coinFlip THEN "player" ELSE "rival", 0, TRUE), saved)
    /\ isGameActive' = TRUE
    /\ turnNumber' = 0
    /\ lastEvent' = "game_start"
    /\ pc' = "firstTurn"
    /\ UNCHANGED <<playerHand, opponentHand, fieldCards, unavailableCells, gameMode,
                   isProcessingMove, mode, draggedCardData, selectableCells, move,
                   battle, combo, result>>

\* start with a storage that works.
Start == StartSaving(TRUE)

\* startPlayerTurn.  The chain that called it returns without another await,
\* so the finally of onPlayerMove has run before any event is served.
startPlayerTurn ==
    /\ turnNumber' = turnNumber + 1
    /\ currentTurn' = "player"
    /\ mode' = "player_turn"
    /\ lastEvent' = "turn_start"
    /\ isProcessingMove' = FALSE
    /\ pc' = "awaitMove"

\* startRivalTurn up to its delay(getAiDelay()).
startRivalTurn ==
    /\ turnNumber' = turnNumber + 1
    /\ currentTurn' = "rival"
    /\ mode' = "events"
    /\ lastEvent' = "turn_start"
    /\ isProcessingMove' = isProcessingMove
    /\ pc' = "rivalThink"

\* The end of start: the first turn goes to the side of the coin flip.
FirstTurn ==
    /\ UNCHANGED <<probe, userCards, levelUp>>
    /\ pc = "firstTurn"
    /\ IF currentTurn = "player" THEN startPlayerTurn ELSE startRivalTurn
    /\ UNCHANGED <<playerHand, opponentHand, fieldCards, unavailableCells, gameMode,
                   isGameActive, draggedCardData, selectableCells, move, battle, combo,
                   result, activeParty>>

\* switchTurn that starts another turn of the side that has just moved.
switchTurn_sameSide ==
    /\ UNCHANGED <<probe, userCards, levelUp>>
    /\ pc = "switchTurn"
    /\ IF currentTurn = "player" THEN startPlayerTurn ELSE startRivalTurn
    /\ UNCHANGED <<playerHand, opponentHand, fieldCards, unavailableCells, gameMode,
                   isGameActive, draggedCardData, selectableCells, move, battle, combo,
                   result, activeParty>>

\* switchTurn after its delay: the other side's turn starts.
switchTurn ==
    /\ UNCHANGED <<probe, userCards, levelUp>>
    /\ pc = "switchTurn"
    /\ IF currentTurn = "player" THEN startRivalTurn ELSE startPlayerTurn
    /\ UNCHANGED <<playerHand, opponentHand, fieldCards, unavailableCells, gameMode,
                   isGameActive, draggedCardData, selectableCells, move, battle, combo,
                   result, activeParty>>

\* ---------------------------------------------------------------- a move's consequences

\* processMoveConsequences that applies the instant captures at once, before
\* the battle of the move.
processMoveConsequences_capturesFirst(f1, cellIndex, owner, screenMode) ==
    LET conflicts == analyzeNeighbors(f1, cellIndex, owner)
        captures == DefenderCells(SelectSeq(conflicts, IsCapture))
        battles == DefenderCells(SelectSeq(conflicts, IsBattle))
        choosing == Len(battles) > 1 /\ owner = "player"
        target == IF Len(battles) = 1 THEN battles[1]
                  ELSE aiSelectsTarget(f1, battles, cellIndex)
    IN  /\ fieldCards' = captureAll(f1, captures, owner).field
        /\ move' = [cellIndex |-> cellIndex, owner |-> owner, captures |-> captures,
                    battles |-> battles, battleCapturedCells |-> <<>>,
                    attackerLostBattle |-> FALSE]
        /\ lastEvent' = (IF owner = "player" THEN "player_move" ELSE "rival_move")
        /\ IF battles = <<>>
           THEN /\ pc' = "captures"
                /\ battle' = NoBattle
                /\ mode' = screenMode
                /\ selectableCells' = selectableCells
           ELSE IF choosing
           THEN /\ pc' = "selectTarget"
                /\ battle' = NoBattle
                /\ mode' = "select_attack"
                /\ selectableCells' = SeqToSet(battles)
           ELSE /\ pc' = "battle"
                /\ battle' = [NoBattle EXCEPT !.attackerCellIndex = cellIndex,
                                              !.defenderCellIndex = target]
                /\ mode' = screenMode
                /\ selectableCells' = selectableCells

\* processMoveConsequences up to its first await, on the field f1 that holds
\* the card just placed: the conflict analysis and processBattles' choice of
\* the target.  screenMode is the screen's mode when it is called.
processMoveConsequences(f1, cellIndex, owner, screenMode) ==
    LET conflicts == analyzeNeighbors(f1, cellIndex, owner)
        captures == DefenderCells(SelectSeq(conflicts, IsCapture))
        battles == DefenderCells(SelectSeq(conflicts, IsBattle))
        choosing == Len(battles) > 1 /\ owner = "player"
        target == IF Len(battles) = 1 THEN battles[1]
                  ELSE aiSelectsTarget(f1, battles, cellIndex)
    IN  /\ fieldCards' = f1
        /\ move' = [cellIndex |-> cellIndex, owner |-> owner, captures |-> captures,
                    battles |-> battles, battleCapturedCells |-> <<>>,
                    attackerLostBattle |-> FALSE]
        /\ lastEvent' = (IF owner = "player" THEN "player_move" ELSE "rival_move")
        /\ IF battles = <<>>
           THEN /\ pc' = "captures"
                /\ battle' = NoBattle
                /\ mode' = screenMode
                /\ selectableCells' = selectableCells
           ELSE IF choosing
           THEN \* playerSelectsTarget: enableAttackSelection
                /\ pc' = "selectTarget"
                /\ battle' = NoBattle
                /\ mode' = "select_attack"
                /\ selectableCells' = SeqToSet(battles)
           ELSE /\ pc' = "battle"
                /\ battle' = [NoBattle EXCEPT !.attackerCellIndex = cellIndex,
                                              !.defenderCellIndex = target]
                /\ mode' = screenMode
                /\ selectableCells' = selectableCells

\* The outcomes of Math.floor(Math.random() * Math.max(1, value)).
RollOutcomes(value) == 0 .. (Max(1, value) - 1)

\* executeBattle up to its first await: the two rolls.
executeBattleRoll ==
    /\ UNCHANGED <<probe, userCards, levelUp>>
    /\ pc = "battle"
    /\ LET attacker == fieldCards[battle.attackerCellIndex]
           defender == fieldCards[battle.defenderCellIndex]
       IN  IF attacker = NoCard \/ defender = NoCard
           THEN /\ pc' = "captures"
                /\ battle' = NoBattle
                /\ lastEvent' = "battle_skipped"
                /\ UNCHANGED mode
           ELSE LET attackValue == getStatValue(attacker.attackLevel)
                    defenseValue == resolveDefenseValue(attacker, defender)
                IN  /\ \E attackRoll \in RollOutcomes(attackValue),
                          defenseRoll \in RollOutcomes(defenseValue) :
                          battle' = [battle EXCEPT !.attackValue = attackValue,
                                                   !.defenseValue = defenseValue,
                                                   !.attackRoll = attackRoll,
                                                   !.defenseRoll = defenseRoll]
                    /\ pc' = "battleApply"
                    /\ mode' = "battle"
                    /\ lastEvent' = "battle"
    /\ UNCHANGED <<playerHand, opponentHand, fieldCards, unavailableCells, gameMode,
                   currentTurn, turnNumber, isGameActive, isProcessingMove,
                   draggedCardData, selectableCells, move, combo, result, activeParty>>

\* attackRoll > defenseRoll: a tie goes to the defender.
attackerWins_strict(attackRoll, defenseRoll) == attackRoll > defenseRoll

\* attackRoll >= defenseRoll
attackerWins(attackRoll, defenseRoll) == attackRoll >= defenseRoll

\* The captures run whatever the battle's result.
capturesAllowed_always(attackerLostBattle) == TRUE

\* if (!attackerLostBattle): the instant captures and the combo run only
\* when the attacker did not lose the battle.
capturesAllowed(attackerLostBattle) == ~attackerLostBattle

\* executeBattle whose won battle is followed by a battle with the next
\* candidate that is still the other side's.
executeBattleApply_nextTarget ==
    /\ UNCHANGED <<probe, userCards, levelUp>>
    /\ pc = "battleApply"
    /\ IF attackerWins(battle.attackRoll, battle.defenseRoll)
       THEN LET pending == SelectSeq(move.battles,
                              LAMBDA c : /\ c # battle.defenderCellIndex
                                         /\ fieldCards[c].owner # move.owner)
            IN  /\ fieldCards' = [fieldCards EXCEPT
                                    ![battle.defenderCellIndex].owner = move.owner]
                /\ move' = [move EXCEPT !.battleCapturedCells = <<battle.defenderCellIndex>>]
                /\ lastEvent' = "battle_win"
                /\ IF pending # <<>>
                   THEN /\ pc' = "battle"
                        /\ battle' = [NoBattle EXCEPT
                                        !.attackerCellIndex = battle.attackerCellIndex,
                                        !.defenderCellIndex = Head(pending)]
                   ELSE /\ pc' = "captures"
                        /\ battle' = NoBattle
       ELSE /\ fieldCards' = [fieldCards EXCEPT ![battle.attackerCellIndex].owner =
                                (IF move.owner = "player" THEN "opponent" ELSE "player")]
            /\ move' = [move EXCEPT !.attackerLostBattle = TRUE]
            /\ lastEvent' = "battle_loss"
            /\ pc' = "endCheck"
            /\ battle' = NoBattle
    /\ mode' = "ownership_change"
    /\ UNCHANGED <<playerHand, opponentHand, unavailableCells, gameMode, currentTurn,
                   turnNumber, isGameActive, isProcessingMove, draggedCardData,
                   selectableCells, combo, result, activeParty>>

\* executeBattle that also takes the attack level from the card that loses
\* the battle.
executeBattleApply_damage ==
    /\ UNCHANGED <<probe, userCards, levelUp>>
    /\ pc = "battleApply"
    /\ IF attackerWins(battle.attackRoll, battle.defenseRoll)
       THEN /\ fieldCards' = [fieldCards EXCEPT ![battle.defenderCellIndex].owner = move.owner,
                                                ![battle.defenderCellIndex].attackLevel = 0]
            /\ move' = [move EXCEPT !.battleCapturedCells = <<battle.defenderCellIndex>>]
            /\ lastEvent' = "battle_win"
            /\ pc' = (IF capturesAllowed(FALSE) THEN "captures" ELSE "endCheck")
       ELSE /\ fieldCards' = [fieldCards EXCEPT
                                ![battle.attackerCellIndex].owner =
                                    (IF move.owner = "player" THEN "opponent" ELSE "player"),
                                ![battle.attackerCellIndex].attackLevel = 0]
            /\ move' = [move EXCEPT !.attackerLostBattle = TRUE]
            /\ lastEvent' = "battle_loss"
            /\ pc' = (IF capturesAllowed(TRUE) THEN "captures" ELSE "endCheck")
    /\ mode' = "ownership_change"
    /\ battle' = NoBattle
    /\ UNCHANGED <<playerHand, opponentHand, unavailableCells, gameMode, currentTurn,
                   turnNumber, isGameActive, isProcessingMove, draggedCardData,
                   selectableCells, combo, result, activeParty>>

\* executeBattle after the battle animation: the result is applied, and
\* processMoveConsequences goes on to the captures or to the end check.
executeBattleApply ==
    /\ UNCHANGED <<probe, userCards, levelUp>>
    /\ pc = "battleApply"
    /\ IF attackerWins(battle.attackRoll, battle.defenseRoll)
       THEN /\ fieldCards' = [fieldCards EXCEPT ![battle.defenderCellIndex].owner = move.owner]
            /\ move' = [move EXCEPT !.battleCapturedCells = <<battle.defenderCellIndex>>]
            /\ lastEvent' = "battle_win"
            /\ pc' = (IF capturesAllowed(FALSE) THEN "captures" ELSE "endCheck")
       ELSE /\ fieldCards' = [fieldCards EXCEPT ![battle.attackerCellIndex].owner =
                                (IF move.owner = "player" THEN "opponent" ELSE "player")]
            /\ move' = [move EXCEPT !.attackerLostBattle = TRUE]
            /\ lastEvent' = "battle_loss"
            /\ pc' = (IF capturesAllowed(TRUE) THEN "captures" ELSE "endCheck")
    /\ mode' = "ownership_change"
    /\ battle' = NoBattle
    /\ UNCHANGED <<playerHand, opponentHand, unavailableCells, gameMode, currentTurn,
                   turnNumber, isGameActive, isProcessingMove, draggedCardData,
                   selectableCells, combo, result, activeParty>>

\* The seed of the combo chain whatever the mode.
comboStarters_anyMode(battleCapturedCells, instantCapturedCells) ==
    battleCapturedCells \o instantCapturedCells

\* The seed of the combo chain that is the won battle in every mode.
comboStarters_battleOnly(battleCapturedCells, instantCapturedCells) ==
    battleCapturedCells

\* The seed of the combo chain: in hard mode the won battle only.
comboStarters(battleCapturedCells, instantCapturedCells) ==
    IF gameMode = "hard" THEN battleCapturedCells
    ELSE battleCapturedCells \o instantCapturedCells

\* processInstantCaptures and the choice of the combo starters.
processInstantCaptures ==
    /\ UNCHANGED <<probe, userCards, levelUp>>
    /\ pc = "captures"
    /\ LET done == captureAll(fieldCards, move.captures, move.owner)
           starters == comboStarters(move.battleCapturedCells, done.capturedCells)
       IN  /\ fieldCards' = done.field
           /\ lastEvent' = (IF done.capturedCells # <<>> THEN "capture" ELSE "no_capture")
           /\ mode' = (IF done.capturedCells # <<>> THEN "ownership_change" ELSE mode)
           /\ IF starters # <<>>
              THEN /\ combo' = [wave |-> starters, processedCells |-> {}, order |-> <<>>]
                   /\ pc' = "combo"
              ELSE /\ combo' = NoCombo
                   /\ pc' = "endCheck"
    /\ UNCHANGED <<playerHand, opponentHand, unavailableCells, gameMode, currentTurn,
                   turnNumber, isGameActive, isProcessingMove, draggedCardData,
                   selectableCells, move, battle, result, activeParty>>

\* processComboChain that recurses in every mode.
processComboChain_anyMode ==
    /\ UNCHANGED <<probe, userCards, levelUp>>
    /\ pc = "combo"
    /\ LET wave == comboWave(fieldCards, combo.wave, move.owner, combo.processedCells)
       IN  /\ fieldCards' = wave.field
           /\ lastEvent' = (IF wave.newCaptures # <<>> THEN "combo_capture" ELSE "combo_end")
           /\ mode' = (IF wave.newCaptures # <<>> THEN "ownership_change" ELSE mode)
           /\ combo' = [wave |-> wave.newCaptures,
                        processedCells |-> wave.processedCells,
                        order |-> combo.order \o wave.order]
           /\ pc' = (IF wave.newCaptures # <<>> THEN "combo" ELSE "endCheck")
    /\ UNCHANGED <<playerHand, opponentHand, unavailableCells, gameMode, currentTurn,
                   turnNumber, isGameActive, isProcessingMove, draggedCardData,
                   selectableCells, move, battle, result, activeParty>>

\* processComboChain: one wave; it recurses unless the mode is hard.
processComboChain ==
    /\ UNCHANGED <<probe, userCards, levelUp>>
    /\ pc = "combo"
    /\ LET wave == comboWave(fieldCards, combo.wave, move.owner, combo.processedCells)
       IN  /\ fieldCards' = wave.field
           /\ lastEvent' = (IF wave.newCaptures # <<>> THEN "combo_capture" ELSE "combo_end")
           /\ mode' = (IF wave.newCaptures # <<>> THEN "ownership_change" ELSE mode)
           /\ combo' = [wave |-> wave.newCaptures,
                        processedCells |-> wave.processedCells,
                        order |-> combo.order \o wave.order]
           /\ pc' = (IF wave.newCaptures # <<>> /\ gameMode # "hard"
                     THEN "combo" ELSE "endCheck")
    /\ UNCHANGED <<playerHand, opponentHand, unavailableCells, gameMode, currentTurn,
                   turnNumber, isGameActive, isProcessingMove, draggedCardData,
                   selectableCells, move, battle, result, activeParty>>

\* ---------------------------------------------------------------- end check

CardsOnField(field) == { c \in Cells : field[c] # NoCard }
PlayerCards(field) == { c \in Cells : field[c] # NoCard /\ field[c].owner = "player" }

\* processGameEnd that gives an even score to the player.
processGameEnd_evenWins(playerScore, opponentScore) ==
    /\ isGameActive' = FALSE
    /\ result' = [winner |-> (IF playerScore >= opponentScore THEN "player"
                              ELSE "opponent"),
                  playerScore |-> playerScore, opponentScore |-> opponentScore]
    /\ lastEvent' = "game_end"
    /\ mode' = "game_end"
    /\ isProcessingMove' = isProcessingMove
    /\ pc' = "ended"

\* processGameEnd: the result of the match.
processGameEnd(playerScore, opponentScore) ==
    /\ isGameActive' = FALSE
    /\ result' = [winner |-> (IF playerScore > opponentScore THEN "player"
                              ELSE IF opponentScore > playerScore THEN "opponent"
                              ELSE "draw"),
                  playerScore |-> playerScore, opponentScore |-> opponentScore]
    /\ lastEvent' = "game_end"
    /\ mode' = "game_end"
    /\ isProcessingMove' = isProcessingMove
    /\ pc' = "ended"

\* The end condition with the test of the open cells inverted.
gameOver_inverted(availableCells, playerHasCards, opponentHasCards) ==
    availableCells # 0 \/ (~playerHasCards /\ ~opponentHasCards)

\* The end condition that asks for a full field and two exhausted hands.
gameOver_needsBoth(availableCells, playerHasCards, opponentHasCards) ==
    availableCells = 0 /\ (~playerHasCards /\ ~opponentHasCards)

\* The end condition that looks at the open cells only.
gameOver_cellsOnly(availableCells, playerHasCards, opponentHasCards) ==
    availableCells = 0

\* The end condition of checkGameEnd.
gameOver(availableCells, playerHasCards, opponentHasCards) ==
    availableCells = 0 \/ (~playerHasCards /\ ~opponentHasCards)

\* checkGameEnd: the snapshot, whose save succeeds or fails as saved says,
\* the counts, the skip of a side without cards, the end of the match or the
\* change of turn.
checkGameEndSaving(saved) ==
    /\ UNCHANGED <<probe, userCards, levelUp>>
    /\ pc = "endCheck"
    /\ saveActivePartySnapshot(Snapshot, saved)
    /\ move' = NoMove
    /\ LET playerCards == Cardinality(PlayerCards(fieldCards))
           opponentCards == Cardinality(CardsOnField(fieldCards)) - playerCards
           availableCells == Cardinality(EmptyCells(fieldCards, unavailableCells))
           playerHasCards == UnusedIndices(playerHand) # {}
           opponentHasCards == UnusedIndices(opponentHand) # {}
       IN  IF currentTurn = "player" /\ ~playerHasCards /\ opponentHasCards
           THEN startRivalTurn /\ UNCHANGED <<isGameActive, result>>
           ELSE IF currentTurn = "rival" /\ ~opponentHasCards /\ playerHasCards
           THEN startPlayerTurn /\ UNCHANGED <<isGameActive, result>>
           ELSE IF gameOver(availableCells, playerHasCards, opponentHasCards)
           THEN processGameEnd(playerCards, opponentCards)
                /\ UNCHANGED <<currentTurn, turnNumber>>
           ELSE /\ pc' = "switchTurn"
                /\ lastEvent' = "turn_end"
                /\ UNCHANGED <<currentTurn, turnNumber, isGameActive, isProcessingMove,
                               mode, result>>
    /\ UNCHANGED <<playerHand, opponentHand, fieldCards, unavailableCells, gameMode,
                   draggedCardData, selectableCells, battle>>
    /\ combo' = NoCombo

\* checkGameEnd with a storage that works.
checkGameEnd == checkGameEndSaving(TRUE)

\* ---------------------------------------------------------------- progression

\* The rolls of processLevelUp explored: Math.random() falls below
\* LEVEL_UP_CHANCE for some of the first MaxLevelUpRolls cards that can rise.
MaxLevelUpRolls == 2

\* What window.cardRenderer.generateCardParams does when called: it throws,
\* it returns nothing, or it returns parameters.
GeneratorResults == {"throws", "nothing", "params"}

\* The parameters the catalog generator returns for a card at newLevel.
GeneratedParams(card, newLevel) ==
    [arrows |-> card.arrows \cup {"arrowTop", "arrowBottom"},
     attackLevel |-> card.attackLevel + 1, attackType |-> card.attackType,
     mechanicalDefense |-> newLevel, electricalDefense |-> newLevel]

NoParams == [arrows |-> {}, attackLevel |-> 0, attackType |-> "P",
             mechanicalDefense |-> 0, electricalDefense |-> 0]

\* generateLevelUpStats without its try/catch: a generator that fails still
\* yields parameters to apply.
generateLevelUpStats_uncaught(card, newLevel, generated) ==
    [ok |-> TRUE, params |-> GeneratedParams(card, newLevel)]

\* generateLevelUpStats: the generator's parameters, or null when it throws
\* or returns nothing.
generateLevelUpStats(card, newLevel, generated) ==
    IF generated = "params"
    THEN [ok |-> TRUE, params |-> GeneratedParams(card, newLevel)]
    ELSE [ok |-> FALSE, params |-> NoParams]

\* The cards of processLevelUp's loop that can rise: used, below the top level.
canLevelUp_anyLevel(card) == card.used

canLevelUp(card) == card.used /\ card.cardLevel < MAX_CARD_LEVEL

\* One pass of processLevelUp's loop: what becomes of the card when its
\* roll is below the chance (rolled) and the generator does as generated says.
levelUpOutcome(card, rolled, generated) ==
    IF ~canLevelUp(card) THEN "skipped"
    ELSE IF ~rolled THEN "kept"
    ELSE IF ~generateLevelUpStats(card, card.cardLevel + 1, generated).ok THEN "failed"
    ELSE "raised"

levelUpCard(card, rolled, generated) ==
    LET newLevel == card.cardLevel + 1
        upgradedStats == generateLevelUpStats(card, newLevel, generated)
    IN  IF levelUpOutcome(card, rolled, generated) = "raised"
        THEN [card EXCEPT !.cardLevel = newLevel,
                          !.attackLevel = upgradedStats.params.attackLevel,
                          !.attackType = upgradedStats.params.attackType,
                          !.mechanicalDefense = upgradedStats.params.mechanicalDefense,
                          !.electricalDefense = upgradedStats.params.electricalDefense,
                          !.arrows = upgradedStats.params.arrows]
        ELSE card

\* processLevelUp, between the game_end event and the reward: nothing happens
\* when the renderer is missing or its init fails; otherwise every used card
\* of the player's hand below the top level rolls, and a card whose roll
\* succeeds takes the generator's parameters for the next level.  The cards
\* of state.fieldState stay as they were placed; the screen's showLevelUp
\* only redraws them.
processLevelUp ==
    /\ UNCHANGED probe
    /\ pc = "ended"
    /\ \E rendererReady \in BOOLEAN :
       \E rolledCards \in SUBSET FirstN({ i \in 1 .. Len(playerHand) : canLevelUp(playerHand[i]) },
                                       MaxLevelUpRolls) :
       \E failedCards \in SUBSET rolledCards :
       \E failure \in GeneratorResults \ {"params"} :
          /\ ~rendererReady => rolledCards = {}
          /\ failedCards = {} => failure = "throws"
          /\ LET generated(i) == IF i \in failedCards THEN failure ELSE "params"
             IN  /\ playerHand' = [i \in 1 .. Len(playerHand) |->
                                      levelUpCard(playerHand[i], i \in rolledCards, generated(i))]
                 /\ levelUp' = [i \in 1 .. Len(playerHand) |->
                                   IF rendererReady
                                   THEN levelUpOutcome(playerHand[i], i \in rolledCards,
                                                       generated(i))
                                   ELSE "skipped"]
          /\ lastEvent' = (IF ~rendererReady THEN "level_up_unavailable"
                           ELSE IF rolledCards \ failedCards # {} THEN "level_up"
                           ELSE "level_up_none")
    /\ pc' = "outcome"
    /\ UNCHANGED <<opponentHand, fieldCards, unavailableCells, gameMode, currentTurn,
                   turnNumber, isGameActive, isProcessingMove, mode, draggedCardData,
                   selectableCells, move, battle, combo, result, activeParty, userCards>>

\* ---------------------------------------------------------------- rewards

\* The cells of S in the order of state.fieldState.cells.
RECURSIVE cellsFrom(_, _)
cellsFrom(S, c) ==
    IF c >= GridSize * GridSize THEN <<>>
    ELSE (IF c \in S THEN <<c>> ELSE <<>>) \o cellsFrom(S, c + 1)

\* The ids of the cards of a hand that were not played.
usedCardIds_unplayed(hand) == { hand[i].id : i \in { j \in 1 .. Len(hand) : ~hand[j].used } }

\* The ids of the used cards of a hand.
usedCardIds(hand) == { hand[i].id : i \in { j \in 1 .. Len(hand) : hand[j].used } }

\* Reward candidates that ignore who owns the card at the end.
candidateCards_anyOwner(field, hand, owner) ==
    cellsFrom({ c \in Cells : field[c] # NoCard /\ field[c].id \in usedCardIds(hand) }, 0)

\* candidateCards of handlePlayerVictory and handlePlayerDefeat: the cells, in
\* field order, of the cards that the hand given has played and that owner
\* holds.
candidateCards(field, hand, owner) ==
    cellsFrom({ c \in Cells : /\ field[c] # NoCard
                              /\ field[c].id \in usedCardIds(hand)
                              /\ field[c].owner = owner }, 0)

\* aiRewardSelector.getRealStatValue on the payload's integer levels.
getRealStatValue(value) == IF value >= 0 /\ value <= 15 THEN value * 16 ELSE value

\* aiRewardSelector.computeCardScore, doubled components kept whole:
\* countArrows * 20 * 0.5 and typeBonus * 0.2.
computeCardScore(card) ==
    [totalValue |-> getRealStatValue(card.attackLevel)
                    + getRealStatValue(card.mechanicalDefense)
                    + getRealStatValue(card.electricalDefense)
                    + Cardinality(card.arrows) * 10
                    + (IF card.attackType = "A" THEN 20
                       ELSE IF card.attackType = "X" THEN 10 ELSE 0),
     attack |-> getRealStatValue(card.attackLevel)]

\* A selector that looks at the total value only: of the candidates of the
\* greatest total value it takes the last.
selectAiRewardCard_totalOnly(field, candidates) ==
    IF candidates = <<>> THEN 0
    ELSE LET best == { c \in SeqToSet(candidates) :
                         \A d \in SeqToSet(candidates) :
                            computeCardScore(field[c]).totalValue
                               >= computeCardScore(field[d]).totalValue }
         IN  field[CHOOSE c \in best : \A d \in best : d <= c].id

\* aiRewardSelector.selectAiRewardCard over the candidates' cells: the loop
\* that keeps the best card so far; the result is the card's id, 0 for null.
RECURSIVE bestRewardCell(_, _, _, _)
bestRewardCell(field, candidates, k, best) ==
    IF k > Len(candidates) THEN best
    ELSE LET card == field[candidates[k]]
             score == computeCardScore(card)
             bestScore == computeCardScore(field[best])
         IN  IF best = NoCell \/ score.totalValue > bestScore.totalValue
             THEN bestRewardCell(field, candidates, k + 1, candidates[k])
             ELSE IF score.totalValue = bestScore.totalValue
                     /\ score.attack > getRealStatValue(field[best].attackLevel)
             THEN bestRewardCell(field, candidates, k + 1, candidates[k])
             ELSE bestRewardCell(field, candidates, k + 1, best)

selectAiRewardCard(field, candidates) ==
    IF candidates = <<>> THEN 0
    ELSE field[bestRewardCell(field, candidates, 1, NoCell)].id

\* saveGameProgress(winner, rewardCardId, lostCardId), ids 0 for null: with
\* a storage that works, the used cards' levels go to the collection, the
\* reward card joins it after a win, the lost card leaves it after a defeat,
\* and the stored snapshot is cleared; with a storage that fails, nothing
\* is stored.
saveGameProgress(winner, rewardCardId, lostCardId, saved) ==
    IF ~saved THEN UNCHANGED <<userCards, activeParty>>
    ELSE
    LET usedCards == { playerHand[i] : i \in { j \in 1 .. Len(playerHand) : playerHand[j].used } }
        leveled == [id \in DOMAIN userCards |->
                       IF \E card \in usedCards : card.id = id
                       THEN (CHOOSE card \in usedCards : card.id = id).cardLevel
                       ELSE userCards[id]]
        inOpponentHand == { opponentHand[i] : i \in 1 .. Len(opponentHand) }
        onField == { fieldCards[c] : c \in Cells }
        rewardFound == \E card \in inOpponentHand \cup onField : card.id = rewardCardId
        rewardLevel == IF \E card \in inOpponentHand : card.id = rewardCardId
                       THEN (CHOOSE card \in inOpponentHand : card.id = rewardCardId).cardLevel
                       ELSE (CHOOSE card \in onField : card.id = rewardCardId).cardLevel
        rewarded == IF winner = "player" /\ rewardCardId # 0 /\ rewardFound
                    THEN [id \in DOMAIN leveled \cup {rewardCardId} |->
                             IF id \in DOMAIN leveled THEN leveled[id] ELSE rewardLevel]
                    ELSE leveled
        afterLoss == IF winner = "rival" /\ lostCardId # 0
                     THEN [id \in DOMAIN rewarded \ {lostCardId} |-> rewarded[id]]
                     ELSE rewarded
    IN  /\ userCards' = afterLoss
        /\ activeParty' = NoSnapshot

\* handlePlayerVictory up to the player's choice: without a candidate nothing
\* is taken; with the screen's selection the candidates' cells become
\* selectable and the choice is awaited; without it the first candidate is
\* taken.
handlePlayerVictory(hasWinnerSelection, saved) ==
    LET candidates == candidateCards(fieldCards, opponentHand, "player")
    IN  IF candidates = <<>>
        THEN /\ saveGameProgress("player", 0, 0, saved)
             /\ lastEvent' = "no_reward"
             /\ pc' = "saved"
             /\ UNCHANGED <<mode, selectableCells>>
        ELSE IF hasWinnerSelection
        THEN /\ mode' = "select_winner"
             /\ selectableCells' = SeqToSet(candidates)
             /\ lastEvent' = "select_winner"
             /\ pc' = "selectWinner"
             /\ UNCHANGED <<userCards, activeParty>>
        ELSE /\ saveGameProgress("player", fieldCards[candidates[1]].id, 0, saved)
             /\ lastEvent' = "reward_first"
             /\ pc' = "saved"
             /\ UNCHANGED <<mode, selectableCells>>

\* handlePlayerDefeat: the rival takes the card that the selector installed
\* by shop-screen.js names.
handlePlayerDefeat(saved) ==
    LET candidates == candidateCards(fieldCards, playerHand, "opponent")
        selectedCardId == selectAiRewardCard(fieldCards, candidates)
    IN  /\ IF candidates = <<>>
           THEN /\ saveGameProgress("rival", 0, 0, saved)
                /\ lastEvent' = "no_penalty"
           ELSE /\ saveGameProgress("rival", 0, selectedCardId, saved)
                /\ lastEvent' = "card_lost"
        /\ pc' = "saved"
        /\ UNCHANGED <<mode, selectableCells>>

\* A draw handled as a defeat of the player.
handleDraw_asDefeat(saved) == handlePlayerDefeat(saved)

\* handleDraw: the progress is saved, no card changes hands.
handleDraw(saved) ==
    /\ saveGameProgress("draw", 0, 0, saved)
    /\ lastEvent' = "draw_saved"
    /\ pc' = "saved"
    /\ UNCHANGED <<mode, selectableCells>>

\* The end of processGameEnd: the reward of the outcome.
processRewardSaving(saved) ==
    /\ UNCHANGED <<probe, levelUp>>
    /\ pc = "outcome"
    /\ IF result.winner = "player"
       THEN \E hasWinnerSelection \in BOOLEAN : handlePlayerVictory(hasWinnerSelection, saved)
       ELSE IF result.winner = "opponent"
       THEN handlePlayerDefeat(saved)
       ELSE handleDraw(saved)
    /\ UNCHANGED <<playerHand, opponentHand, fieldCards, unavailableCells, gameMode,
                   currentTurn, turnNumber, isGameActive, isProcessingMove,
                   draggedCardData, move, battle, combo, result>>

processReward == processRewardSaving(TRUE)

\* ---------------------------------------------------------------- the rival's move

\* fallbackAiMove without the filter of the used cards.
fallbackAiMove_anyCard ==
    LET availableCards == 1 .. Len(opponentHand)
        emptyCells == EmptyCells(fieldCards, unavailableCells)
    IN  IF availableCards = {} \/ emptyCells = {} THEN {}
        ELSE FirstN(availableCards, MaxCardChoice) \X FirstN(emptyCells, MaxAiCellChoice)

\* fallbackAiMove: a random unused card on a random open cell, or no move.
\* The moves explored are those of the first cards and cells.
fallbackAiMove ==
    LET availableCards == UnusedIndices(opponentHand)
        emptyCells == EmptyCells(fieldCards, unavailableCells)
    IN  IF availableCards = {} \/ emptyCells = {} THEN {}
        ELSE FirstN(availableCards, MaxCardChoice) \X FirstN(emptyCells, MaxAiCellChoice)

\* startRivalTurn after its delay: the AI's move, its placement by the
\* screen (handleOpponentMove) and the start of its consequences.
rivalMove ==
    /\ UNCHANGED <<probe, userCards, levelUp>>
    /\ pc = "rivalThink"
    /\ IF fallbackAiMove = {}
       THEN /\ pc' = "endCheck"
            /\ lastEvent' = "ai_no_move"
            /\ UNCHANGED <<opponentHand, fieldCards, move, battle, mode, selectableCells>>
       ELSE \E aiMove \in fallbackAiMove :
               LET card == opponentHand[aiMove[1]]
                   f1 == [fieldCards EXCEPT ![aiMove[2]] = FieldCard(card, "opponent")]
               IN  /\ opponentHand' = [markCardAsUsed(card.id, opponentHand)
                                          EXCEPT ![aiMove[1]].used = TRUE]
                   /\ processMoveConsequences(f1, aiMove[2], "opponent", mode)
    /\ UNCHANGED <<playerHand, unavailableCells, gameMode, currentTurn, turnNumber,
                   isGameActive, isProcessingMove, draggedCardData, combo, result,
                   activeParty>>

\* ---------------------------------------------------------------- the player's events

\* The cards the player tries to drag: the first used one and the first
\* unused ones.
DragChoices ==
    FirstN({ i \in 1 .. Len(playerHand) : playerHand[i].used }, 1)
        \cup FirstN(UnusedIndices(playerHand), MaxCardChoice)

\* The cells the player tries to drop on: the first blocked one, the first
\* occupied one and the first open ones.
DropChoices ==
    FirstN(unavailableCells, 1)
        \cup FirstN(CardsOnField(fieldCards), 1)
        \cup FirstN(EmptyCells(fieldCards, unavailableCells), MaxCellChoice)

\* The test of the class 'used' that finds no card used.
cardIsUsed_never(card) == FALSE

\* The hand card is rendered with the class 'used'.
cardIsUsed(card) == card.used

\* handleCardDragStart on the hand card of index cardIndex.  renderPlayerHand
\* makes only unused cards draggable and marks the used ones 'used'.
handleCardDragStart(cardIndex) ==
    /\ UNCHANGED <<probe, userCards, levelUp>>
    /\ IF mode # "player_turn"
       THEN /\ lastEvent' = "drag_rejected_mode"
            /\ UNCHANGED draggedCardData
       ELSE IF cardIsUsed(playerHand[cardIndex])
       THEN /\ lastEvent' = "drag_rejected_used"
            /\ UNCHANGED draggedCardData
       ELSE /\ draggedCardData' = cardIndex
            /\ lastEvent' = "drag_start"
    /\ UNCHANGED <<playerHand, opponentHand, fieldCards, unavailableCells, gameMode,
                   currentTurn, turnNumber, isGameActive, isProcessingMove, mode,
                   selectableCells, pc, move, battle, combo, result, activeParty>>

\* handleCardDragEnd: the drag of a card ended without a drop on a cell.
handleCardDragEnd ==
    /\ UNCHANGED <<probe, userCards, levelUp>>
    /\ draggedCardData # 0
    /\ draggedCardData' = 0
    /\ lastEvent' = "drag_end"
    /\ UNCHANGED <<playerHand, opponentHand, fieldCards, unavailableCells, gameMode,
                   currentTurn, turnNumber, isGameActive, isProcessingMove, mode,
                   selectableCells, pc, move, battle, combo, result, activeParty>>

\* handleCellDrop that leaves the screen in the player's turn mode.
modeAfterDrop_unchanged == "player_turn"

\* The mode handleCellDrop sets before it hands the move to the orchestrator.
modeAfterDrop == "events"

\* onPlayerMove up to its first await, on the field f1 the screen has
\* already updated.
onPlayerMove(f1, cellIndex) ==
    IF currentTurn # "player" \/ isProcessingMove
    THEN /\ fieldCards' = f1
         /\ mode' = modeAfterDrop
         /\ lastEvent' = "move_rejected"
         /\ UNCHANGED <<isProcessingMove, pc, move, battle, selectableCells>>
    ELSE /\ isProcessingMove' = TRUE
         /\ processMoveConsequences(f1, cellIndex, "player", modeAfterDrop)

\* The occupancy test that finds no cell occupied.
cellOccupied_never(field, cellIndex) == FALSE

\* partyScreenState.fieldCards.has(cellIndex)
cellOccupied(field, cellIndex) == field[cellIndex] # NoCard

\* handleCellDrop on the cell cellIndex.  initGameField attaches the handler
\* to available cells only.  The drop ends the drag: the browser sends
\* dragend to the dragged card before any timer runs, so the reset of
\* handleCardDragEnd is part of the step.
handleCellDrop(cellIndex) ==
    /\ UNCHANGED <<probe, userCards, levelUp>>
    /\ draggedCardData' = 0
    /\ IF cellIndex \in unavailableCells
       THEN /\ lastEvent' = "drop_no_listener"
            /\ UNCHANGED <<playerHand, fieldCards, isProcessingMove, mode,
                           selectableCells, pc, move, battle>>
       ELSE IF mode # "player_turn"
       THEN /\ lastEvent' = "drop_rejected_mode"
            /\ UNCHANGED <<playerHand, fieldCards, isProcessingMove, mode,
                           selectableCells, pc, move, battle>>
       ELSE IF cellOccupied(fieldCards, cellIndex)
       THEN /\ lastEvent' = "drop_rejected_occupied"
            /\ UNCHANGED <<playerHand, fieldCards, isProcessingMove, mode,
                           selectableCells, pc, move, battle>>
       ELSE IF draggedCardData = 0
       THEN /\ lastEvent' = "drop_rejected_no_card"
            /\ UNCHANGED <<playerHand, fieldCards, isProcessingMove, mode,
                           selectableCells, pc, move, battle>>
       ELSE LET cardData == playerHand[draggedCardData]
                f1 == [fieldCards EXCEPT ![cellIndex] = FieldCard(cardData, "player")]
            IN  /\ playerHand' = markCardAsUsed(cardData.id, playerHand)
                /\ onPlayerMove(f1, cellIndex)
    /\ UNCHANGED <<opponentHand, unavailableCells, gameMode, currentTurn, turnNumber,
                   isGameActive, combo, result, activeParty>>

\* handleCellClick on the cell cellIndex, a selectable cell of a selection
\* mode.  In the attack selection the click resolves playerSelectsTarget, and
\* processBattles goes on to executeBattle with the chosen target.  In the
\* winner's selection it resolves handlePlayerVictory's callback: the card of
\* the chosen cell is the reward that saveGameProgress stores.
handleCellClick(cellIndex) ==
    /\ UNCHANGED <<probe, levelUp>>
    /\ cellIndex \notin unavailableCells
    /\ cellIndex \in selectableCells
    /\ selectableCells' = {}
    /\ \/ /\ mode = "select_attack"
          /\ pc = "selectTarget"
          /\ battle' = [NoBattle EXCEPT
                          !.attackerCellIndex = move.cellIndex,
                          !.defenderCellIndex = findTarget(move.battles, cellIndex)]
          /\ pc' = "battle"
          /\ lastEvent' = "target_selected"
          /\ UNCHANGED <<mode, activeParty, userCards>>
       \/ /\ mode = "select_winner"
          /\ pc = "selectWinner"
          /\ LET candidates == candidateCards(fieldCards, opponentHand, "player")
             IN  saveGameProgress("player",
                                  IF cellIndex \in SeqToSet(candidates)
                                  THEN fieldCards[cellIndex].id ELSE 0,
                                  0, TRUE)
          /\ mode' = "game_end"
          /\ pc' = "saved"
          /\ lastEvent' = "reward_selected"
          /\ UNCHANGED battle
    /\ UNCHANGED <<playerHand, opponentHand, fieldCards, unavailableCells, gameMode,
                   currentTurn, turnNumber, isGameActive, isProcessingMove,
                   draggedCardData, move, combo, result>>

\* ---------------------------------------------------------------- specification

Next ==
    \/ Start
    \/ FirstTurn
    \/ switchTurn
    \/ rivalMove
    \/ executeBattleRoll
    \/ executeBattleApply
    \/ processInstantCaptures
    \/ processComboChain
    \/ checkGameEnd
    \/ processLevelUp
    \/ processReward
    \/ \E cardIndex \in DragChoices : handleCardDragStart(cardIndex)
    \/ handleCardDragEnd
    \/ \E cellIndex \in DropChoices : handleCellDrop(cellIndex)
    \/ \E cellIndex \in Cells : handleCellClick(cellIndex)

Spec == Init /\ [][Next]_vars

\* ---------------------------------------------------------------- scheduling

\* The rolls explored where the schedule matters: both rolls of a battle
\* are at most MaxLiveRoll, which leaves battles won and battles lost.
MaxLiveRoll == 1

LiveRolls == battle.attackRoll <= MaxLiveRoll /\ battle.defenseRoll <= MaxLiveRoll

NextLive == Next /\ LiveRolls'

\* The positions of the chain at which the orchestrator's code goes on by
\* itself: each is left by the continuation of an await (a delay, an
\* animation, a save) that the event loop resumes.
EnginePositions ==
    {"init", "firstTurn", "switchTurn", "rivalThink", "battle", "battleApply",
     "captures", "combo", "endCheck", "ended", "outcome"}

\* The positions at which the chain awaits a click on a selectable cell.
PromptPositions == {"selectTarget", "selectWinner"}

Positions == EnginePositions \cup PromptPositions \cup {"awaitMove", "saved", "resumed"}

\* The chain goes on: a continuation runs and moves it to its next position.
EngineAdvance == pc \in EnginePositions /\ pc' \in Positions

\* The player answers a prompt, the target of the battle or the reward, by
\* a click on one of the selectable cells.
PromptAnswer ==
    /\ pc \in PromptPositions
    /\ mode \in {"select_attack", "select_winner"}
    /\ selectableCells \ unavailableCells # {}
    /\ pc' \in Positions

\* The player picks up a card that can be played.
LegalDrag ==
    \E cardIndex \in DragChoices :
        handleCardDragStart(cardIndex) /\ draggedCardData' = cardIndex

\* The player drops the dragged card on an open cell in the player's turn.
LegalPlacement ==
    \E cellIndex \in DropChoices :
        handleCellDrop(cellIndex) /\ playerHand' # playerHand

\* The match of a player who keeps playing: the chain does not stall at a
\* position it leaves by itself, prompts are answered, and a player who can
\* pick up a card or place the card picked up does so at some point,
\* whatever else is tried in between.
SpecLive ==
    /\ Init /\ [][NextLive]_vars
    /\ WF_pc(EngineAdvance)
    /\ WF_pc(PromptAnswer)
    /\ SF_vars(LegalDrag)
    /\ SF_vars(LegalPlacement)

\* ---------------------------------------------------------------- resumed matches

\* The page is left and opened again during the first turns only: a match
\* is resumed only from a snapshot of a turn up to MaxResumeTurn.
MaxResumeTurn == 1

\* resume(snapshot) up to its delay(1000), for the snapshot stored last.  The
\* page that calls it has been loaded anew and has put the stored cards on
\* its field and in its hands ("the cards are already placed"), so the
\* screen's state is the snapshot's and nothing of the abandoned chain is
\* left.
resume ==
    /\ UNCHANGED <<probe, userCards>>
    /\ levelUp' = NoLevelUp
    /\ activeParty.saved
    /\ activeParty.turnNumber <= MaxResumeTurn
    /\ pc \notin {"init", "resumed"}
    /\ gameMode' = activeParty.gameMode
    /\ playerHand' = activeParty.playerHand
    /\ opponentHand' = activeParty.opponentHand
    /\ unavailableCells' = activeParty.unavailableCells
    /\ fieldCards' = activeParty.fieldCards
    /\ currentTurn' = activeParty.currentTurn
    /\ turnNumber' = activeParty.turnNumber
    /\ isGameActive' = TRUE
    /\ isProcessingMove' = FALSE
    /\ mode' = "loading"
    /\ draggedCardData' = 0
    /\ selectableCells' = {}
    /\ move' = NoMove
    /\ battle' = NoBattle
    /\ combo' = NoCombo
    /\ result' = NoResult
    /\ lastEvent' = "game_resume"
    /\ pc' = "resumed"
    /\ UNCHANGED activeParty

\* The end of resume: the turn of the stored currentTurn is started.
resumeTurn ==
    /\ UNCHANGED <<probe, userCards, levelUp>>
    /\ pc = "resumed"
    /\ IF currentTurn = "player" THEN startPlayerTurn ELSE startRivalTurn
    /\ UNCHANGED <<playerHand, opponentHand, fieldCards, unavailableCells, gameMode,
                   isGameActive, draggedCardData, selectableCells, move, battle, combo,
                   result, activeParty>>

NextResume ==
    \/ Next
    \/ resume
    \/ resumeTurn

SpecResume == Init /\ [][NextResume]_vars

\* ---------------------------------------------------------------- failing storage

\* The saves fail during the first turns only: a save can fail at the start
\* and in the end check of a turn up to MaxFailedSaveTurn.
MaxFailedSaveTurn == 2

StartSaveFailed == StartSaving(FALSE)

checkGameEndSaveFailed ==
    /\ turnNumber <= MaxFailedSaveTurn
    /\ checkGameEndSaving(FALSE)

processRewardSaveFailed == processRewardSaving(FALSE)

NextSave ==
    \/ Next
    \/ StartSaveFailed
    \/ checkGameEndSaveFailed
    \/ processRewardSaveFailed

SpecSave == Init /\ [][NextSave]_vars

\* ---------------------------------------------------------------- the AI's move calculator

\* Scores are kept as integer multiples of 1 / ScoreScale: the win
\* probability attackValue / (attackValue + defenseValue) and cardStrength / 10
\* are exact at this scale for stat levels whose sums go up to 8.
ScoreScale == 840

cornerIndices == {0, 3, 12, 15}

\* checkArrowRelation: the arrow of the attacker in the direction and the
\* arrow of the defender in the opposite one.
checkArrowRelation(attacker, defender, direction) ==
    IF direction.activeArrow \notin attacker.arrows THEN "none"
    ELSE IF direction.reactiveArrow \notin defender.arrows THEN "capture"
    ELSE "battle"

\* calculateWinProbability, times ScoreScale.
calculateWinProbability(attacker, defender) ==
    LET attackValue == getStatValue(attacker.attackLevel)
        defenseValue == resolveDefenseValue(attacker, defender)
        total == attackValue + defenseValue
    IN  IF total <= 0 THEN ScoreScale \div 2
        ELSE Max(0, Min(ScoreScale, (attackValue * ScoreScale) \div total))

\* calculateComboPotential from direction k on: virtualOwners is the set of
\* the cells the simulation has given to the AI.
RECURSIVE calculateComboPotential(_, _, _, _, _, _)
calculateComboPotential(startIndex, field, aiOwner, depth, virtualOwners, k) ==
    IF depth > 5 \/ field[startIndex] = NoCard \/ k > Len(directions) THEN 0
    ELSE LET direction == directions[k]
             n == getNeighborCell(startIndex, direction)
             rest == calculateComboPotential(startIndex, field, aiOwner, depth,
                                             virtualOwners, k + 1)
         IN  IF n = NoCell THEN rest
             ELSE IF field[n] = NoCard THEN rest
             ELSE IF n \in virtualOwners \/ field[n].owner = aiOwner THEN rest
             ELSE LET relation == checkArrowRelation(field[startIndex], field[n], direction)
                      winChance == IF relation = "battle"
                                   THEN calculateWinProbability(field[startIndex], field[n])
                                   ELSE ScoreScale
                  IN  IF relation = "none" THEN rest
                      ELSE IF relation = "battle" /\ 10 * winChance < 3 * ScoreScale
                      THEN rest
                      ELSE (IF depth = 2 THEN 60 ELSE IF depth = 3 THEN 80
                            ELSE IF depth >= 4 THEN 100 ELSE 0)
                           + (IF depth < 5
                              THEN calculateComboPotential(n, field, aiOwner, depth + 1,
                                                           virtualOwners \cup {n}, 1)
                              ELSE 0)
                           + rest

getCardStrength(card) ==
    getStatValue(card.attackLevel) + getStatValue(card.mechanicalDefense)
        + getStatValue(card.electricalDefense)

\* evaluateMove's first loop from direction k on: the score, times
\* ScoreScale, and the count of the captures expected.
RECURSIVE conflictScore(_, _, _, _, _)
conflictScore(card, cellIndex, field, aiOwner, k) ==
    IF k > Len(directions) THEN [score |-> 0, captureCount |-> 0]
    ELSE LET direction == directions[k]
             n == getNeighborCell(cellIndex, direction)
             rest == conflictScore(card, cellIndex, field, aiOwner, k + 1)
             relation == IF n = NoCell THEN "none"
                         ELSE IF field[n] = NoCard \/ field[n].owner = aiOwner THEN "none"
                         ELSE checkArrowRelation(card, field[n], direction)
         IN  IF relation = "capture"
             THEN [score |-> 100 * ScoreScale
                               + ScoreScale * calculateComboPotential(n, field, aiOwner, 2,
                                                                       {n}, 1)
                               + rest.score,
                   captureCount |-> 1 + rest.captureCount]
             ELSE IF relation = "battle"
             THEN LET winChance == calculateWinProbability(card, field[n])
                      likely == 2 * winChance >= ScoreScale
                  IN  [score |-> 100 * winChance
                                    - (IF 5 * winChance < ScoreScale THEN 30 * ScoreScale
                                       ELSE 0)
                                    + (IF likely
                                       THEN winChance * calculateComboPotential(n, field,
                                                            aiOwner, 2, {n}, 1)
                                       ELSE 0)
                                    + rest.score,
                       captureCount |-> (IF likely THEN 1 ELSE 0) + rest.captureCount]
             ELSE rest

\* evaluateMove's second loop from direction k on: the safety score.
RECURSIVE safetyScore(_, _, _, _, _)
safetyScore(card, cellIndex, field, unavailable, k) ==
    IF k > Len(directions) THEN 0
    ELSE LET direction == directions[k]
             n == getNeighborCell(cellIndex, direction)
             open == IF n = NoCell THEN FALSE
                     ELSE n \notin unavailable /\ field[n] = NoCard
         IN  (IF direction.activeArrow \notin card.arrows
              THEN (IF open THEN 0 - 30 ELSE 10)
              ELSE (IF open THEN 5 ELSE 0))
             + safetyScore(card, cellIndex, field, unavailable, k + 1)

\* evaluateMove: the score of the card at the cell, times ScoreScale.
evaluateMove(card, cellIndex, field, unavailable) ==
    LET conflicts == conflictScore(card, cellIndex, field, "opponent", 1)
        outwardArrows ==
            { k \in 1 .. Len(directions) :
                /\ getNeighborCell(cellIndex, directions[k]) = NoCell
                /\ directions[k].activeArrow \in card.arrows }
    IN  conflicts.score
        + ScoreScale * safetyScore(card, cellIndex, field, unavailable, 1)
        + (IF conflicts.captureCount >= 2
           THEN (getCardStrength(card) * ScoreScale) \div 10 ELSE 0)
        + (IF cellIndex \in cornerIndices /\ Cardinality(outwardArrows) >= 2
           THEN 20 * ScoreScale ELSE 0)

NoAiMove == [cardId |-> 0, cellIndex |-> NoCell, found |-> FALSE, maxScore |-> 0]

\* isCardAvailable: every hand card of a match has inHand true.
isCardAvailable(card) == ~card.used

\* The inner loop of calculateAiMove that replaces the best move on an
\* equal score too.
RECURSIVE bestCardAt_lastBest(_, _, _, _, _, _)
bestCardAt_lastBest(field, unavailable, cards, cellIndex, i, best) ==
    IF i > Len(cards) THEN best
    ELSE LET score == evaluateMove(cards[i], cellIndex, field, unavailable)
         IN  IF ~best.found \/ score >= best.maxScore
             THEN bestCardAt_lastBest(field, unavailable, cards, cellIndex, i + 1,
                                      [cardId |-> cards[i].id, cellIndex |-> cellIndex,
                                       found |-> TRUE, maxScore |-> score])
             ELSE bestCardAt_lastBest(field, unavailable, cards, cellIndex, i + 1, best)

\* The inner loop of calculateAiMove, over the cards in the order of the
\* hand: best is bestMove with maxScore (found FALSE stands for -Infinity),
\* replaced when the score is greater.
RECURSIVE bestCardAt(_, _, _, _, _, _)
bestCardAt(field, unavailable, cards, cellIndex, i, best) ==
    IF i > Len(cards) THEN best
    ELSE LET score == evaluateMove(cards[i], cellIndex, field, unavailable)
         IN  IF ~best.found \/ score > best.maxScore
             THEN bestCardAt(field, unavailable, cards, cellIndex, i + 1,
                             [cardId |-> cards[i].id, cellIndex |-> cellIndex,
                              found |-> TRUE, maxScore |-> score])
             ELSE bestCardAt(field, unavailable, cards, cellIndex, i + 1, best)

\* The outer loop of calculateAiMove, over the cells in the order of
\* fieldState.cells, from the cell given on.
RECURSIVE bestMoveFrom(_, _, _, _, _)
bestMoveFrom(field, unavailable, cards, cellIndex, best) ==
    IF cellIndex > GridSize * GridSize - 1 THEN best
    ELSE IF cellIndex \notin EmptyCells(field, unavailable)
    THEN bestMoveFrom(field, unavailable, cards, cellIndex + 1, best)
    ELSE LET next == bestCardAt(field, unavailable, cards, cellIndex, 1, best)
         IN  IF next = best
             THEN bestMoveFrom(field, unavailable, cards, cellIndex + 1, best)
             ELSE bestMoveFrom(field, unavailable, cards, cellIndex + 1, next)

\* calculateAiMove: the best move over the available cards of the hand and
\* the available empty cells, or no move.
calculateAiMove(field, unavailable, aiHand) ==
    bestMoveFrom(field, unavailable, SelectSeq(aiHand, isCardAvailable), 0, NoAiMove)

\* ---------------------------------------------------------------- the move prediction

SAFE_COLOR == "#00FF00"
BATTLE_COLOR == "#FF0000"
BATTLE_CHOICE_COLORS == <<"#FFA500", "#D000FF", "#00FFFF">>

\* The type labels `battle_choice_${index + 1}` of the alternative targets.
BattleChoiceLabels ==
    <<"battle_choice_1", "battle_choice_2", "battle_choice_3", "battle_choice_4",
      "battle_choice_5", "battle_choice_6", "battle_choice_7", "battle_choice_8">>

\* An arrow of the prediction.
PredictionArrow(fromIndex, toIndex, type, color) ==
    [fromIndex |-> fromIndex, toIndex |-> toIndex, type |-> type, color |-> color]

\* The direction loop of simulateComboChain that captures the neighbours of
\* a cell and does not go on from them.
RECURSIVE simulateCell_flat(_, _, _, _, _)
simulateCell_flat(st, cellIndex, newOwner, color, k) ==
    IF k > Len(directions) THEN st
    ELSE LET direction == directions[k]
             neighbor == getNeighborCell(cellIndex, direction)
             hit == /\ direction.activeArrow \in st.cells[cellIndex].arrows
                    /\ neighbor # NoCell
                    /\ st.cells[neighbor] # NoCard
                    /\ isEnemyCard(st.cells[neighbor], newOwner)
         IN  IF ~hit THEN simulateCell_flat(st, cellIndex, newOwner, color, k + 1)
             ELSE simulateCell_flat(
                     [cells |-> [st.cells EXCEPT ![neighbor].owner = newOwner],
                      processedCells |-> st.processedCells,
                      arrows |-> Append(st.arrows,
                                    PredictionArrow(cellIndex, neighbor,
                                        IF color = SAFE_COLOR THEN "safe"
                                        ELSE "combo_from_battle", color))],
                     cellIndex, newOwner, color, k + 1)

RECURSIVE simulateComboChain(_, _, _, _)

\* The direction loop of simulateComboChain for one captured cell: every
\* enemy neighbour in a direction of the card's own arrows is captured on
\* the clone, gets an arrow, and the chain goes on from it at once, before
\* the next direction is looked at.
RECURSIVE simulateCell(_, _, _, _, _)
simulateCell(st, cellIndex, newOwner, color, k) ==
    IF k > Len(directions) THEN st
    ELSE LET direction == directions[k]
             neighbor == getNeighborCell(cellIndex, direction)
             hit == /\ direction.activeArrow \in st.cells[cellIndex].arrows
                    /\ neighbor # NoCell
                    /\ st.cells[neighbor] # NoCard
                    /\ isEnemyCard(st.cells[neighbor], newOwner)
         IN  IF ~hit THEN simulateCell(st, cellIndex, newOwner, color, k + 1)
             ELSE LET captured ==
                          [cells |-> [st.cells EXCEPT ![neighbor].owner = newOwner],
                           processedCells |-> st.processedCells,
                           arrows |-> Append(st.arrows,
                                         PredictionArrow(cellIndex, neighbor,
                                             IF color = SAFE_COLOR THEN "safe"
                                             ELSE "combo_from_battle", color))]
                      deeper == simulateComboChain(captured, <<neighbor>>, newOwner, color)
                  IN  simulateCell(deeper, cellIndex, newOwner, color, k + 1)

\* simulateComboChain: the loop over capturedIndices; st holds the cloned
\* cells, the shared set processedCells and the arrows found so far.
simulateComboChain(st, capturedIndices, newOwner, color) ==
    IF capturedIndices = <<>> THEN st
    ELSE LET cellIndex == Head(capturedIndices)
             marked == [st EXCEPT !.processedCells = @ \cup {cellIndex}]
         IN  IF cellIndex \in st.processedCells
             THEN simulateComboChain(st, Tail(capturedIndices), newOwner, color)
             ELSE IF st.cells[cellIndex] = NoCard
             THEN simulateComboChain(marked, Tail(capturedIndices), newOwner, color)
             ELSE simulateComboChain(simulateCell(marked, cellIndex, newOwner, color, 1),
                                     Tail(capturedIndices), newOwner, color)

\* Step 2 of calculateOutcome: the neighbours of the placed card in the
\* directions of its arrows that hold an enemy card, as captures or battles.
RECURSIVE outcomeConflicts(_, _, _)
outcomeConflicts(cells, cellIndex, k) ==
    IF k > Len(directions) THEN <<>>
    ELSE LET direction == directions[k]
             neighbor == getNeighborCell(cellIndex, direction)
             rest == outcomeConflicts(cells, cellIndex, k + 1)
         IN  IF direction.activeArrow \notin cells[cellIndex].arrows THEN rest
             ELSE IF neighbor = NoCell THEN rest
             ELSE IF cells[neighbor] = NoCard THEN rest
             ELSE IF ~isEnemyCard(cells[neighbor], "player") THEN rest
             ELSE IF direction.reactiveArrow \notin cells[neighbor].arrows
                  THEN <<[type |-> "capture", direction |-> direction.name,
                          defenderCellIndex |-> neighbor]>> \o rest
                  ELSE <<[type |-> "battle", direction |-> direction.name,
                          defenderCellIndex |-> neighbor]>> \o rest

\* Scenario 1 of calculateOutcome, the loop over the captures: an arrow from
\* the placed card to each defender, which becomes the player's on the clone.
RECURSIVE safeCaptures(_, _, _)
safeCaptures(st, cellIndex, captures) ==
    IF captures = <<>> THEN st
    ELSE LET c == Head(captures)
         IN  safeCaptures(
                 [cells |-> IF st.cells[c] = NoCard THEN st.cells
                            ELSE [st.cells EXCEPT ![c].owner = "player"],
                  processedCells |-> st.processedCells,
                  arrows |-> Append(st.arrows,
                                PredictionArrow(cellIndex, c, "safe", SAFE_COLOR))],
                 cellIndex, Tail(captures))

\* Scenarios 2 and 3 of calculateOutcome: for each battle an arrow to its
\* defender and, on a clone of its own on which the battle is won, the combo
\* that would follow.
RECURSIVE battleArrows(_, _, _, _)
battleArrows(cells, cellIndex, battles, index) ==
    IF index > Len(battles) THEN <<>>
    ELSE LET target == battles[index]
             single == Len(battles) = 1
             color == IF single THEN BATTLE_COLOR
                      ELSE BATTLE_CHOICE_COLORS[((index - 1) % Len(BATTLE_CHOICE_COLORS)) + 1]
             comboClone == IF cells[target] = NoCard THEN cells
                           ELSE [cells EXCEPT ![target].owner = "player"]
             combo1 == simulateComboChain(
                          [cells |-> comboClone, processedCells |-> {cellIndex},
                           arrows |-> <<>>],
                          <<target>>, "player", color)
         IN  <<PredictionArrow(cellIndex, target,
                   IF single THEN "battle" ELSE BattleChoiceLabels[index], color)>>
                \o combo1.arrows
                \o battleArrows(cells, cellIndex, battles, index + 1)

\* calculateOutcome(card, cellIndex, fieldCells): the arrows of the outcome
\* predicted for the player's card on the cell; unavailable holds the cells
\* whose isAvailable is false.
calculateOutcome(card, cellIndex, fieldCells, unavailable) ==
    IF cellIndex = NoCell \/ cellIndex \in unavailable
    THEN [outcomeType |-> "none", arrows |-> <<>>]
    ELSE IF fieldCells[cellIndex] # NoCard
    THEN [outcomeType |-> "none", arrows |-> <<>>]
    ELSE LET cells == [fieldCells EXCEPT ![cellIndex] = FieldCard(card, "player")]
             conflicts == outcomeConflicts(cells, cellIndex, 1)
             captures == DefenderCells(SelectSeq(conflicts, IsCapture))
             battles == DefenderCells(SelectSeq(conflicts, IsBattle))
             start == [cells |-> cells, processedCells |-> {cellIndex}, arrows |-> <<>>]
             safe == IF captures = <<>> THEN start
                     ELSE simulateComboChain(safeCaptures(start, cellIndex, captures),
                                             captures, "player", SAFE_COLOR)
         IN  [outcomeType |-> (IF captures # <<>> /\ battles # <<>> THEN "mixed"
                               ELSE IF captures # <<>> THEN "safe"
                               ELSE IF battles # <<>> THEN "battle"
                               ELSE "none"),
              arrows |-> safe.arrows \o battleArrows(safe.cells, cellIndex, battles, 1)]

\* The recursion of processComboChain: the waves follow each other while a
\* wave captures a card, in the hard mode the first wave is the last.
RECURSIVE comboChain(_, _, _, _, _)
comboChain(field, capturedCellIndices, newOwner, processedCells, gameModeOfParty) ==
    LET wave == comboWave(field, capturedCellIndices, newOwner, processedCells)
    IN  IF wave.newCaptures # <<>> /\ gameModeOfParty # "hard"
        THEN comboChain(wave.field, wave.newCaptures, newOwner, wave.processedCells,
                        gameModeOfParty)
        ELSE wave.field

\* processMoveConsequences of a move that meets no battle, from the field
\* with the placed card to the field that checkGameEnd finds.
moveWithoutBattle(f1, cellIndex, owner, gameModeOfParty) ==
    LET conflicts == analyzeNeighbors(f1, cellIndex, owner)
        captures == DefenderCells(SelectSeq(conflicts, IsCapture))
        done == captureAll(f1, captures, owner)
        starters == IF gameModeOfParty = "hard" THEN <<>> ELSE done.capturedCells
    IN  IF starters # <<>>
        THEN comboChain(done.field, starters, owner, {}, gameModeOfParty)
        ELSE done.field

\* ---------------------------------------------------------------- calls of the pure helpers

\* The stat levels of the defenders the calls are made with.
MaxProbeLevel == 3
ProbeLevels == 0 .. MaxProbeLevel

AttackTypes == {"P", "E", "M", "X", "A", "?"}

\* What the neighbour cell of a call of analyzeNeighbors holds: nothing, a
\* card of the placing side or of the other side, without or with the arrow
\* that points back.
NeighborKinds == {"empty", "own", "ownFacing", "enemy", "enemyFacing"}

OtherOwner(owner) == IF owner = "player" THEN "opponent" ELSE "player"

ProbeCard(id, arrows, owner) == FieldCard(Card(id, arrows, 1, "P", 1, 1), owner)

\* The arrows of the placed card of a call: of the active arrows of
\* direction k and of the direction after it, those that sel selects.
ProbeArrows(k, sel) ==
    { directions[((k - 1 + j) % Len(directions)) + 1].activeArrow : j \in sel }

\* A field for a call of analyzeNeighbors: the placed card at cellIndex with
\* the arrows given, the neighbour of direction k as kind says, and a card
\* of the other side that points back in the direction after k.
ProbeField(cellIndex, owner, arrows, k, kind) ==
    LET k2 == (k % Len(directions)) + 1
        n == getNeighborCell(cellIndex, directions[k])
        n2 == getNeighborCell(cellIndex, directions[k2])
    IN  [c \in Cells |->
            IF c = cellIndex THEN ProbeCard(1, arrows, owner)
            ELSE IF c = n /\ kind # "empty"
                 THEN ProbeCard(2,
                        IF kind \in {"ownFacing", "enemyFacing"}
                        THEN {directions[k].reactiveArrow} ELSE {},
                        IF kind \in {"own", "ownFacing"} THEN owner ELSE OtherOwner(owner))
            ELSE IF c = n2
                 THEN ProbeCard(3, {directions[k2].reactiveArrow}, OtherOwner(owner))
            ELSE NoCard]

\* A field for a call of calculateAiMove: the player's card i at cell a, the
\* player's third card at cell b and, if asked for, the opponent's first
\* card at cell r.
AiProbeField(a, i, b, r) ==
    [c \in Cells |->
        IF c = a THEN FieldCard(PlayerDeck[i], "player")
        ELSE IF c = b THEN FieldCard(PlayerDeck[3], "player")
        ELSE IF c = r THEN FieldCard(OpponentDeck[1], "opponent")
        ELSE NoCard]

\* A field for a call of aiSelectsTarget: the opponent's card at cell 5 with
\* arrows to the left and to the right, the player's cards at cells 4 and 6
\* that point back at it and have the further arrows and the mechanical
\* defenses given, and above each of them nothing or a card of the owner
\* given.
TargetProbeField(arrows4, arrows6, defense4, defense6, above4, above6) ==
    [c \in Cells |->
        IF c = 5 THEN FieldCard(Card(6, {"arrowLeft", "arrowRight"}, 1, "P", 1, 1), "opponent")
        ELSE IF c = 4
        THEN FieldCard(Card(1, {"arrowRight"} \cup arrows4, 1, "P", defense4, 1), "player")
        ELSE IF c = 6
        THEN FieldCard(Card(2, {"arrowLeft"} \cup arrows6, 1, "P", defense6, 1), "player")
        ELSE IF c = 0 /\ above4 # "none" THEN ProbeCard(3, {}, above4)
        ELSE IF c = 2 /\ above6 # "none" THEN ProbeCard(4, {}, above6)
        ELSE NoCard]

\* A field for a call of processBattles: the attacker's card at cell 5 with
\* arrows to the left and to the right, and at cells 4, 6 and 1 cards of the
\* other side, those of cells 4 and 6 with an arrow that points back at the
\* attacker if facing4 and facing6 say so.
BattleProbeField(owner, facing4, facing6) ==
    [c \in Cells |->
        IF c = 5 THEN ProbeCard(1, {"arrowLeft", "arrowRight"}, owner)
        ELSE IF c = 4
        THEN ProbeCard(2, IF facing4 THEN {"arrowRight"} ELSE {}, OtherOwner(owner))
        ELSE IF c = 6
        THEN ProbeCard(3, IF facing6 THEN {"arrowLeft"} ELSE {}, OtherOwner(owner))
        ELSE IF c = 1 THEN ProbeCard(4, {"arrowBottom"}, OtherOwner(owner))
        ELSE NoCard]

\* A field for a call of calculateOutcome on cell 5: the opponent's cards at
\* cells 6, 9 and 7 with the arrows given, at cell 10 a card of the owner
\* given and, if asked for, the opponent's card at cell 11.
PredictionProbeField(arrows6, arrows9, arrows10, owner10, arrows7, has11) ==
    [c \in Cells |->
        IF c = 6 THEN ProbeCard(6, arrows6, "opponent")
        ELSE IF c = 9 THEN ProbeCard(7, arrows9, "opponent")
        ELSE IF c = 10 THEN ProbeCard(8, arrows10, owner10)
        ELSE IF c = 7 THEN ProbeCard(9, arrows7, "opponent")
        ELSE IF c = 11 /\ has11 THEN ProbeCard(10, {}, "opponent")
        ELSE NoCard]

\* The opponent's hand with the cards of usedCards played.
AiProbeHand(usedCards) ==
    [i \in 1 .. HAND_SIZE |-> [OpponentDeck[i] EXCEPT !.used = (i \in usedCards)]]

\* The calls explored, before they are made.
ProbeCalls ==
    { [fn |-> "getNeighborCell", done |-> FALSE, index |-> i, direction |-> k]
        : i \in Cells, k \in 1 .. Len(directions) }
    \cup
    { [fn |-> "analyzeNeighbors", done |-> FALSE, cellIndex |-> i, owner |-> o,
       direction |-> k, kind |-> kind,
       field |-> ProbeField(i, o, ProbeArrows(k, sel), k, kind)]
        : i \in Cells, o \in {"player", "opponent"}, k \in 1 .. Len(directions),
          sel \in SUBSET {0, 1}, kind \in NeighborKinds }
    \cup
    { [fn |-> "calculateAiMove", done |-> FALSE, field |-> AiProbeField(a, i, b, r),
       unavailable |-> u, aiHand |-> AiProbeHand(usedCards)]
        : a \in Cells \ {3, 7, 9}, i \in {1, 2, 4}, b \in {NoCell, 5, 6},
          r \in {NoCell, 9}, u \in {{}, {3, 7}},
          usedCards \in {{1}, {1, 2, 3}, {1, 2, 3, 5}, 1 .. HAND_SIZE} }
    \cup
    { [fn |-> "aiSelectsTarget", done |-> FALSE, attackerCellIndex |-> 5,
       field |-> TargetProbeField(arrows4, arrows6, defense4, defense6, above4, above6)]
        : arrows4 \in SUBSET {"arrowTop", "arrowBottom"},
          arrows6 \in SUBSET {"arrowTop", "arrowBottom"},
          defense4 \in 0 .. 1, defense6 \in 0 .. 1,
          above4 \in {"none", "player", "opponent"},
          above6 \in {"none", "player", "opponent"} }
    \cup
    { [fn |-> "processBattles", done |-> FALSE, attackerCellIndex |-> 5,
       attackerOwner |-> o, field |-> BattleProbeField(o, facing4, facing6),
       useSelector |-> useSelector, answer |-> answer]
        : o \in {"player", "opponent"}, facing4 \in BOOLEAN, facing6 \in BOOLEAN,
          useSelector \in BOOLEAN, answer \in Cells \cup {NoCell} }
    \cup
    { [fn |-> "calculateOutcome", done |-> FALSE,
       card |-> Card(1, arrows, 1, "P", 1, 1), cellIndex |-> 5, unavailable |-> {},
       gameMode |-> m,
       field |-> PredictionProbeField(arrows6, arrows9, arrows10, owner10, arrows7, has11)]
        : arrows \in SUBSET {"arrowRight", "arrowBottom"},
          arrows6 \in SUBSET {"arrowLeft", "arrowRight", "arrowBottom"},
          arrows9 \in SUBSET {"arrowTop", "arrowRight"},
          arrows10 \in SUBSET {"arrowTop", "arrowRight"},
          owner10 \in {"player", "opponent"},
          arrows7 \in SUBSET {"arrowBottom"},
          has11 \in BOOLEAN, m \in {"standard", "hard"} }
    \cup
    { [fn |-> "calculateOutcome", done |-> FALSE,
       card |-> Card(1, {"arrowRight", "arrowBottom"}, 1, "P", 1, 1), cellIndex |-> i,
       unavailable |-> u, gameMode |-> "standard",
       field |-> PredictionProbeField({"arrowBottom"}, {}, {"arrowRight"}, "opponent",
                                      {}, TRUE)]
        : i \in {5, 6, NoCell}, u \in {{5}, {3, 7}} }
    \cup
    { [fn |-> "resolveDefenseValue", done |-> FALSE,
       attacker |-> [attackType |-> t],
       defender |-> [mechanicalDefense |-> m, electricalDefense |-> e, attackLevel |-> a]]
        : t \in AttackTypes, m \in ProbeLevels, e \in ProbeLevels, a \in ProbeLevels }

\* No match runs while a helper is called on its own.
InitCalls ==
    /\ playerHand = PlayerDeck
    /\ opponentHand = OpponentDeck
    /\ fieldCards = [c \in Cells |-> NoCard]
    /\ unavailableCells = {}
    /\ gameMode = "standard"
    /\ currentTurn = "none"
    /\ turnNumber = 0
    /\ isGameActive = FALSE
    /\ isProcessingMove = FALSE
    /\ mode = "loading"
    /\ draggedCardData = 0
    /\ selectableCells = {}
    /\ pc = "init"
    /\ move = NoMove
    /\ battle = NoBattle
    /\ combo = NoCombo
    /\ result = NoResult
    /\ activeParty = NoSnapshot
    /\ lastEvent = "none"
    /\ userCards = InitialUserCards
    /\ levelUp = NoLevelUp
    /\ probe \in ProbeCalls

call_getNeighborCell ==
    /\ probe.fn = "getNeighborCell"
    /\ ~probe.done
    /\ probe' = [fn |-> probe.fn, done |-> TRUE, index |-> probe.index,
                 direction |-> probe.direction,
                 result |-> getNeighborCell(probe.index, directions[probe.direction])]
    /\ UNCHANGED matchVars

call_analyzeNeighbors ==
    /\ probe.fn = "analyzeNeighbors"
    /\ ~probe.done
    /\ probe' = [fn |-> probe.fn, done |-> TRUE, cellIndex |-> probe.cellIndex,
                 owner |-> probe.owner, direction |-> probe.direction,
                 kind |-> probe.kind, field |-> probe.field,
                 result |-> analyzeNeighbors(probe.field, probe.cellIndex, probe.owner)]
    /\ UNCHANGED matchVars

call_resolveDefenseValue ==
    /\ probe.fn = "resolveDefenseValue"
    /\ ~probe.done
    /\ probe' = [fn |-> probe.fn, done |-> TRUE, attacker |-> probe.attacker,
                 defender |-> probe.defender,
                 result |-> resolveDefenseValue(probe.attacker, probe.defender)]
    /\ UNCHANGED matchVars

\* calculateAiMove as the orchestrator calls it: with the unused cards of
\* the opponent's hand.
call_calculateAiMove ==
    /\ probe.fn = "calculateAiMove"
    /\ ~probe.done
    /\ probe' = [fn |-> probe.fn, done |-> TRUE, field |-> probe.field,
                 unavailable |-> probe.unavailable, aiHand |-> probe.aiHand,
                 result |-> calculateAiMove(probe.field, probe.unavailable, probe.aiHand)]
    /\ UNCHANGED matchVars

\* aiSelectsTarget as processBattles calls it: with the battles of the
\* analysis of the attacker's cell.
call_aiSelectsTarget ==
    /\ probe.fn = "aiSelectsTarget"
    /\ ~probe.done
    /\ LET conflicts == analyzeNeighbors(probe.field, probe.attackerCellIndex, "opponent")
           battles == DefenderCells(SelectSeq(conflicts, IsBattle))
       IN  probe' = [fn |-> probe.fn, done |-> TRUE,
                     attackerCellIndex |-> probe.attackerCellIndex, field |-> probe.field,
                     battles |-> battles,
                     result |-> aiSelectsTarget(probe.field, battles,
                                                probe.attackerCellIndex)]
    /\ UNCHANGED matchVars

\* processBattles as processMoveConsequences calls it: with the battles of
\* the analysis of the attacker's cell.
call_processBattles ==
    /\ probe.fn = "processBattles"
    /\ ~probe.done
    /\ LET conflicts == analyzeNeighbors(probe.field, probe.attackerCellIndex,
                                         probe.attackerOwner)
           battles == DefenderCells(SelectSeq(conflicts, IsBattle))
       IN  probe' = [fn |-> probe.fn, done |-> TRUE,
                     attackerCellIndex |-> probe.attackerCellIndex,
                     attackerOwner |-> probe.attackerOwner, field |-> probe.field,
                     useSelector |-> probe.useSelector, answer |-> probe.answer,
                     battles |-> battles,
                     result |-> processBattles(probe.field, battles,
                                               probe.attackerCellIndex,
                                               probe.attackerOwner, probe.useSelector,
                                               probe.answer)]
    /\ UNCHANGED matchVars

\* calculateOutcome as handleCellDragOver calls it, with the dragged card,
\* the cell under it and the cards of the field, and the move itself as
\* the drop on that cell plays it when no battle is met.
call_calculateOutcome ==
    /\ probe.fn = "calculateOutcome"
    /\ ~probe.done
    /\ LET legal == /\ probe.cellIndex # NoCell
                    /\ probe.cellIndex \notin probe.unavailable
                    /\ ~cellOccupied(probe.field, probe.cellIndex)
           f1 == IF legal
                 THEN [probe.field EXCEPT ![probe.cellIndex] = FieldCard(probe.card, "player")]
                 ELSE probe.field
           battles == IF legal
                      THEN DefenderCells(SelectSeq(
                               analyzeNeighbors(f1, probe.cellIndex, "player"), IsBattle))
                      ELSE <<>>
       IN  probe' = [fn |-> probe.fn, done |-> TRUE, card |-> probe.card,
                     cellIndex |-> probe.cellIndex, unavailable |-> probe.unavailable,
                     gameMode |-> probe.gameMode, field |-> probe.field,
                     result |-> calculateOutcome(probe.card, probe.cellIndex, probe.field,
                                                 probe.unavailable),
                     legal |-> legal,
                     placed |-> f1,
                     battles |-> battles,
                     played |-> IF legal /\ battles = <<>>
                                THEN moveWithoutBattle(f1, probe.cellIndex, "player",
                                                       probe.gameMode)
                                ELSE f1]
    /\ UNCHANGED matchVars

NextCalls ==
    \/ call_calculateOutcome
    \/ call_processBattles
    \/ call_aiSelectsTarget
    \/ call_calculateAiMove
    \/ call_getNeighborCell
    \/ call_analyzeNeighbors
    \/ call_resolveDefenseValue

SpecCalls == InitCalls /\ [][NextCalls]_vars

\* ---------------------------------------------------------------- properties

\* The number of unused hand cards and of cards on the field.
C1_Total ==
    Cardinality(UnusedIndices(playerHand)) + Cardinality(UnusedIndices(opponentHand))
        + Cardinality(CardsOnField(fieldCards))

\* The cell holds the same card after the step, whoever owns it.
C1_SameCard(c) ==
    IF fieldCards[c] = NoCard THEN fieldCards'[c] = NoCard
    ELSE fieldCards'[c] = [fieldCards[c] EXCEPT !.owner = fieldCards'[c].owner]

\* A step that places no card: the hands keep their unused cards and every
\* cell keeps its card; only owners may change.
C1_OwnersOnly ==
    /\ \A c \in Cells : C1_SameCard(c)
    /\ UnusedIndices(playerHand') = UnusedIndices(playerHand)
    /\ UnusedIndices(opponentHand') = UnusedIndices(opponentHand)

\* A step that moves exactly one unused card of one hand to one empty cell.
C1_OnePlacement ==
    \E c \in Cells :
        /\ fieldCards[c] = NoCard
        /\ fieldCards'[c] # NoCard
        /\ \A d \in Cells \ {c} : C1_SameCard(d)
        /\ \/ /\ \E i \in UnusedIndices(playerHand) :
                    /\ playerHand[i].id = fieldCards'[c].id
                    /\ UnusedIndices(playerHand') = UnusedIndices(playerHand) \ {i}
              /\ UnusedIndices(opponentHand') = UnusedIndices(opponentHand)
           \/ /\ \E i \in UnusedIndices(opponentHand) :
                    /\ opponentHand[i].id = fieldCards'[c].id
                    /\ UnusedIndices(opponentHand') = UnusedIndices(opponentHand) \ {i}
              /\ UnusedIndices(playerHand') = UnusedIndices(playerHand)

\* C1.  Card conservation: in every reachable state the unused cards of the
\* two hands and the cards on the field number 2 * HAND_SIZE = 10; every step
\* either moves exactly one unused card from one hand to an empty cell or
\* leaves the hands and the cards of the field as they are, changing owners
\* only.
C1_CardConservation ==
    /\ [](C1_Total = 2 * HAND_SIZE)
    /\ [][C1_OwnersOnly \/ C1_OnePlacement]_vars

\* C1, witness: a finished match with the ten cards on the field, one of the
\* player's cards owned by the opponent.
C1_Witness ==
    /\ pc = "ended"
    /\ Cardinality(CardsOnField(fieldCards)) = 2 * HAND_SIZE
    /\ \E c \in Cells : fieldCards[c].id \in 1 .. HAND_SIZE /\ fieldCards[c].owner = "opponent"

\* The enemy neighbours of the placed card that lie in a direction of one of
\* its arrows and have no arrow pointing back.
C2_CaptureTargets ==
    { n \in Cells : \E k \in 1 .. Len(directions) :
        /\ n = getNeighborCell(move.cellIndex, directions[k])
        /\ fieldCards[n] # NoCard
        /\ fieldCards[n].owner # move.owner
        /\ directions[k].activeArrow \in fieldCards[move.cellIndex].arrows
        /\ directions[k].reactiveArrow \notin fieldCards[n].arrows }

\* Until the captures of a move are applied, its list of captures is the set
\* of those neighbours.
C2_Classified ==
    pc \in {"selectTarget", "battle", "battleApply", "captures"}
        /\ ~move.attackerLostBattle
        => SeqToSet(move.captures) = C2_CaptureTargets

\* C2 as the claim states it.  Deterministic capture: when the resolution of
\* a move completes, every neighbour classified as a capture is owned by the
\* placing side, whatever the battle of the move gave.
C2_Original ==
    /\ C2_Classified
    /\ (pc = "endCheck" /\ move.cellIndex # NoCell
            => \A c \in SeqToSet(move.captures) : fieldCards[c].owner = move.owner)

\* C2, amended.  Deterministic capture: when the resolution of a move
\* completes and the placing side did not lose the move's battle, every
\* neighbour classified as a capture is owned by the placing side.
C2_DeterministicCapture ==
    /\ C2_Classified
    /\ (pc = "endCheck" /\ move.cellIndex # NoCell /\ ~move.attackerLostBattle
            => \A c \in SeqToSet(move.captures) : fieldCards[c].owner = move.owner)

\* C2, witness: a move with a won battle and a capture, resolved.
C2_Witness ==
    /\ pc = "endCheck"
    /\ move.captures # <<>>
    /\ move.battleCapturedCells # <<>>
    /\ \A c \in SeqToSet(move.captures) : fieldCards[c].owner = move.owner

\* C3.  Lost-battle rule: no owner changes between the placement and the
\* battle's result; the step that finds the battle lost flips the placed card
\* to the other side, changes nothing else on the field and goes to the end
\* check; from there to the end check's own step the field stays as it is
\* and neither the captures nor the combo run.
C3_LostBattleRule ==
    [][/\ (pc \in {"selectTarget", "battle"} => fieldCards' = fieldCards)
       /\ (move'.attackerLostBattle /\ ~move.attackerLostBattle
              => /\ fieldCards' = [fieldCards EXCEPT ![move.cellIndex].owner =
                                     (IF move.owner = "player" THEN "opponent" ELSE "player")]
                 /\ pc' = "endCheck"
                 /\ combo' = NoCombo)
       /\ (move.attackerLostBattle
              => /\ fieldCards' = fieldCards
                 /\ combo' = NoCombo
                 /\ pc' \notin {"captures", "combo"})]_vars

\* C3, witness: a lost battle of a move that had a neighbour classified as a
\* capture; the neighbour is still the enemy's.
C3_Witness ==
    /\ pc = "endCheck"
    /\ move.attackerLostBattle
    /\ move.captures # <<>>
    /\ fieldCards[move.cellIndex].owner # move.owner
    /\ \A c \in SeqToSet(move.captures) : fieldCards[c].owner # move.owner

\* C4 as the claim states it.  Battle roll ranges: in a battle the attack
\* roll lies in 0..attackValue and the defense roll in 0..defenseValue, and
\* every value of these ranges, the upper bounds included, is an outcome of
\* the roll.
C4_RollRanges ==
    pc = "battleApply"
        => /\ battle.attackRoll \in 0 .. battle.attackValue
           /\ battle.defenseRoll \in 0 .. battle.defenseValue
           /\ RollOutcomes(battle.attackValue) = 0 .. battle.attackValue
           /\ RollOutcomes(battle.defenseValue) = 0 .. battle.defenseValue

\* C4, witness: a battle of a card of attack value 16 whose roll is 15, the
\* greatest the code draws.
C4_Witness ==
    /\ pc = "battleApply"
    /\ battle.attackValue = StatMultiplier
    /\ battle.attackRoll = StatMultiplier - 1
    /\ \A r \in RollOutcomes(battle.attackValue) : r <= battle.attackRoll

\* C5.  Battle outcome: the step that applies a battle's result gives the
\* battle to the attacker iff attackRoll >= defenseRoll; on a win the
\* defender, an enemy until then, changes to the placing side and nothing else
\* on the field changes, and the defender's cell is the battle's captured
\* cell; the captures' step then seeds the combo chain with it first.
C5_BattleOutcome ==
    [][/\ (pc = "battleApply" /\ pc' # "battleApply"
              => IF battle.attackRoll >= battle.defenseRoll
                 THEN /\ fieldCards[battle.defenderCellIndex].owner # move.owner
                      /\ fieldCards' = [fieldCards EXCEPT
                                          ![battle.defenderCellIndex].owner = move.owner]
                      /\ move'.battleCapturedCells = <<battle.defenderCellIndex>>
                      /\ ~move'.attackerLostBattle
                 ELSE /\ move'.attackerLostBattle
                      /\ move'.battleCapturedCells = <<>>
                      /\ fieldCards'[battle.defenderCellIndex]
                            = fieldCards[battle.defenderCellIndex])
       /\ (pc = "captures" /\ pc' # "captures" /\ move.battleCapturedCells # <<>>
              => /\ pc' = "combo"
                 /\ Head(combo'.wave) = Head(move.battleCapturedCells))]_vars

\* C5, witness: a won battle; the defender is the placing side's and is the
\* battle's captured cell.
C5_Witness ==
    /\ lastEvent = "battle_win"
    /\ move.battleCapturedCells # <<>>
    /\ fieldCards[Head(move.battleCapturedCells)].owner = move.owner
    /\ fieldCards[move.cellIndex].owner = move.owner

\* No available empty cell remains, or both hands have no unused card.
EndCondition ==
    \/ \A c \in Cells : c \in unavailableCells \/ fieldCards[c] # NoCard
    \/ /\ \A i \in 1 .. Len(playerHand) : playerHand[i].used
       /\ \A i \in 1 .. Len(opponentHand) : opponentHand[i].used

\* C6.  End condition, never earlier: the match has ended only in a state
\* where no available empty cell remains or both hands have no unused card.
C6_EndNeverEarlier ==
    (pc = "ended" \/ mode = "game_end" \/ result # NoResult \/ lastEvent = "game_end")
        => EndCondition

\* C6, witness: a match ended by the two exhausted hands, open cells left.
C6_Witness ==
    /\ pc = "ended"
    /\ result # NoResult
    /\ EmptyCells(fieldCards, unavailableCells) # {}
    /\ UnusedIndices(playerHand) = {}
    /\ UnusedIndices(opponentHand) = {}

\* C7.  End condition, converse: the end check's step taken in a state where
\* no available empty cell remains or both hands are exhausted ends the
\* match, with no turn_start and no change of the turn counter or the turn
\* owner; once ended, the match starts no turn.
C7_EndConverse ==
    [][/\ (pc = "endCheck" /\ pc' # "endCheck" /\ EndCondition
              => /\ pc' = "ended"
                 /\ ~isGameActive'
                 /\ lastEvent' = "game_end"
                 /\ turnNumber' = turnNumber
                 /\ currentTurn' = currentTurn)
       /\ (pc \in {"ended", "outcome", "selectWinner", "saved"}
              => /\ pc' \in {"ended", "outcome", "selectWinner", "saved"}
                 /\ lastEvent' # "turn_start"
                 /\ turnNumber' = turnNumber
                 /\ currentTurn' = currentTurn)]_vars

\* C7, witness: a match ended by the end check on a field without an open
\* cell.
C7_Witness ==
    /\ pc = "ended"
    /\ lastEvent = "game_end"
    /\ ~isGameActive
    /\ EmptyCells(fieldCards, unavailableCells) = {}

\* C8.  Re-entrancy / wrong turn: a drop, the one way a player's move is
\* submitted, made while it is not the player's turn or while a move is
\* being resolved changes neither the field, nor a hand, nor the turn owner,
\* nor the turn counter, and leaves the running resolution where it is.
C8_Reentrancy ==
    [][(currentTurn # "player" \/ isProcessingMove)
          /\ (\E cellIndex \in Cells : handleCellDrop(cellIndex))
          => UNCHANGED <<fieldCards, playerHand, opponentHand, currentTurn, turnNumber,
                         isProcessingMove, pc, move, battle, combo>>]_vars

\* C8, witness: a drop rejected while the rival's reply to the player's move
\* is being resolved.
C8_Witness ==
    /\ lastEvent = "drop_rejected_mode"
    /\ isProcessingMove
    /\ currentTurn = "rival"
    /\ pc \in {"battle", "battleApply", "captures", "combo", "endCheck"}

\* C9.  Occupied/unavailable cell rejection: a drop on a cell that holds a
\* card or is unavailable changes neither the field, nor a hand, nor the turn
\* owner, nor the turn counter; no step of the match replaces or removes the
\* card of a cell, and no card lies on an unavailable cell.
C9_OccupiedCell ==
    /\ [](\A c \in unavailableCells : fieldCards[c] = NoCard)
    /\ [][/\ ((\E cellIndex \in Cells :
                  /\ cellIndex \in unavailableCells \/ fieldCards[cellIndex] # NoCard
                  /\ handleCellDrop(cellIndex))
                => UNCHANGED <<fieldCards, playerHand, opponentHand, currentTurn,
                               turnNumber>>)
          /\ \A c \in Cells : fieldCards[c] # NoCard
                => fieldCards'[c] = [fieldCards[c] EXCEPT !.owner = fieldCards'[c].owner]]_vars

\* C9, witness: in the player's turn a drop on an occupied cell was rejected.
C9_Witness ==
    /\ lastEvent = "drop_rejected_occupied"
    /\ mode = "player_turn"
    /\ currentTurn = "player"
    /\ CardsOnField(fieldCards) # {}

\* The ids of the cards on the field are those of the used hand cards, each
\* on one cell.
C10_PlacedOnce ==
    /\ \A c, d \in CardsOnField(fieldCards) : fieldCards[c].id = fieldCards[d].id => c = d
    /\ \A c \in CardsOnField(fieldCards) :
          \/ \E i \in 1 .. Len(playerHand) :
                playerHand[i].used /\ playerHand[i].id = fieldCards[c].id
          \/ \E i \in 1 .. Len(opponentHand) :
                opponentHand[i].used /\ opponentHand[i].id = fieldCards[c].id

C11_ComboSeeding ==
    pc = "combo"
        => /\ combo.wave # <<>>
           /\ combo.processedCells = {}
                 => combo.wave = (IF gameMode = "hard" THEN move.battleCapturedCells
                                  ELSE move.battleCapturedCells \o move.captures)
           /\ gameMode = "hard"
                 => /\ combo.processedCells = {}
                    /\ move.battleCapturedCells # <<>>
                    /\ \A c \in SeqToSet(move.captures) : c \notin SeqToSet(combo.wave)

\* C11, witness: in the hard mode a move with a won battle and an instant
\* capture; the combo chain is seeded with the battle's cell only.
C11_Witness ==
    /\ gameMode = "hard"
    /\ pc = "combo"
    /\ move.captures # <<>>
    /\ \A c \in SeqToSet(move.captures) : fieldCards[c].owner = move.owner
    /\ combo.wave = move.battleCapturedCells

\* C12.  Combo termination: the chain adds a cell to the visited set when it
\* processes it, processes no cell twice, processes at most the sixteen
\* cells of the board, and every card it captures belonged to the other
\* side before the capture and is the only kind of card it changes.
C12_ComboTermination ==
    /\ [](/\ Len(combo.order) <= GridSize * GridSize
          /\ SeqToSet(combo.order) = combo.processedCells
          /\ \A i, j \in 1..Len(combo.order) : i # j => combo.order[i] # combo.order[j])
    /\ [][pc = "combo" /\ combo' # combo
            => /\ combo.processedCells \subseteq combo'.processedCells
               /\ \A c \in SeqToSet(combo.wave) : c \in combo'.processedCells
               /\ \A c \in SeqToSet(combo'.wave) :
                     /\ fieldCards[c] # NoCard
                     /\ fieldCards[c].owner # move.owner
                     /\ fieldCards'[c] = [fieldCards[c] EXCEPT !.owner = move.owner]
               /\ \A c \in Cells :
                     fieldCards'[c] # fieldCards[c] => c \in SeqToSet(combo'.wave)]_vars

\* C12, witness: a chain of several waves has finished: it processed a
\* cell that was not in its seed, a card the chain itself had captured.
C12_Witness ==
    /\ pc = "endCheck"
    /\ combo.wave = <<>>
    /\ \E i \in 1..Len(combo.order) :
          /\ combo.order[i] \notin SeqToSet(move.battleCapturedCells \o move.captures)
          /\ fieldCards[combo.order[i]].owner = move.owner

\* C13.  Board adjacency without wraparound: a call of getNeighborCell for a
\* cell and a direction returns a neighbour exactly when the cell's row plus
\* the row delta and its column plus the column delta both lie in 0..3, the
\* neighbour is then the cell of that row and column, index row * 4 + column,
\* and cell 0 has exactly the neighbours right (1), bottom (4) and
\* bottomRight (5).
C13_Adjacency ==
    probe.fn = "getNeighborCell" /\ probe.done
        => LET d == directions[probe.direction]
               row == (probe.index \div 4) + d.rowDelta
               col == (probe.index % 4) + d.colDelta
               inBoard == row \in 0 .. 3 /\ col \in 0 .. 3
           IN  /\ probe.result # NoCell <=> inBoard
               /\ inBoard => probe.result = row * 4 + col
               /\ probe.result # NoCell
                     => /\ probe.result \in Cells
                        /\ (probe.result \div 4) - (probe.index \div 4) = d.rowDelta
                        /\ (probe.result % 4) - (probe.index % 4) = d.colDelta
               /\ probe.index = 0
                     => /\ probe.result # NoCell
                           <=> d.name \in {"right", "bottom", "bottomRight"}
                        /\ d.name = "right" => probe.result = 1
                        /\ d.name = "bottom" => probe.result = 4
                        /\ d.name = "bottomRight" => probe.result = 5

\* C13, witness: the call for cell 3, the right end of the top row, and the
\* direction right has returned no neighbour, not cell 4.
C13_Witness ==
    /\ probe.fn = "getNeighborCell"
    /\ probe.done
    /\ probe.index = 3
    /\ directions[probe.direction].name = "right"
    /\ probe.result = NoCell

\* C14.  Arrow classification: a call of analyzeNeighbors for a placed card
\* reports, for a direction, a capture exactly when the placed card's arrow
\* of that direction is true, the neighbour of that direction exists and
\* holds a card of the other side, and that card's opposite arrow is false;
\* a battle exactly when the same holds with the opposite arrow true; and
\* nothing for an empty or missing neighbour, a card of the same side or a
\* direction without the placed card's arrow.  Every reported conflict names
\* the neighbour of its direction and no direction is reported twice.
C14_Classification ==
    probe.fn = "analyzeNeighbors" /\ probe.done
        => /\ \A j \in 1 .. Len(directions) :
                LET d == directions[j]
                    row == (probe.cellIndex \div 4) + d.rowDelta
                    col == (probe.cellIndex % 4) + d.colDelta
                    exists == row \in 0 .. 3 /\ col \in 0 .. 3
                    n == row * 4 + col
                    active == d.activeArrow \in probe.field[probe.cellIndex].arrows
                    enemy == /\ exists
                             /\ probe.field[n] # NoCard
                             /\ probe.field[n].owner = OtherOwner(probe.owner)
                    facing == exists /\ d.reactiveArrow \in probe.field[n].arrows
                    reported(type) == { x \in 1 .. Len(probe.result) :
                                          /\ probe.result[x].direction = d.name
                                          /\ probe.result[x].type = type }
                IN  /\ reported("capture") # {} <=> active /\ enemy /\ ~facing
                    /\ reported("battle") # {} <=> active /\ enemy /\ facing
                    /\ Cardinality(reported("capture") \cup reported("battle")) <= 1
                    /\ \A x \in reported("capture") \cup reported("battle") :
                          probe.result[x].defenderCellIndex = n
           /\ \A x \in 1 .. Len(probe.result) :
                /\ probe.result[x].type \in {"capture", "battle"}
                /\ \E j \in 1 .. Len(directions) :
                      directions[j].name = probe.result[x].direction

\* C14, witness: a call whose placed card has both arrows, with a card of
\* the other side that does not point back in one direction and one that
\* does in the next, has returned a capture and a battle.
C14_Witness ==
    /\ probe.fn = "analyzeNeighbors"
    /\ probe.done
    /\ probe.kind = "enemy"
    /\ Len(probe.result) = 2
    /\ \E x, y \in 1 .. 2 :
          /\ probe.result[x].type = "capture"
          /\ probe.result[x].direction = directions[probe.direction].name
          /\ probe.result[y].type = "battle"

\* C15.  Defence selection by attack type: a call of resolveDefenseValue
\* returns the defender's mechanical defence for a Physical attacker (P),
\* the electrical defence for an Electric one (E), the lower of the two for
\* a Flexible one (X), and the lowest of the two defences and the defender's
\* own attack for an Assault one (A), each level scaled by the multiplier.
C15_DefenseSelection ==
    probe.fn = "resolveDefenseValue" /\ probe.done
        => LET mech == probe.defender.mechanicalDefense * StatMultiplier
               elec == probe.defender.electricalDefense * StatMultiplier
               att == probe.defender.attackLevel * StatMultiplier
               type == probe.attacker.attackType
               lowest(S) == CHOOSE v \in S : \A w \in S : v <= w
           IN  /\ type = "P" => probe.result = mech
               /\ type = "E" => probe.result = elec
               /\ type = "X" => probe.result = lowest({mech, elec})
               /\ type = "A" => probe.result = lowest({mech, elec, att})

\* C15, witness: an Assault attacker against a defender whose own attack is
\* lower than both its defences; the call has returned the attack.
C15_Witness ==
    /\ probe.fn = "resolveDefenseValue"
    /\ probe.done
    /\ probe.attacker.attackType = "A"
    /\ probe.defender.attackLevel < probe.defender.mechanicalDefense
    /\ probe.defender.attackLevel < probe.defender.electricalDefense
    /\ probe.result = probe.defender.attackLevel * StatMultiplier

\* C16.  One battle per move: a battle starts only with a placement or with
\* the choice of a target for that placement, its attacker is the card just
\* placed and its defender one of the move's battle candidates; once the
\* battle's result is applied the move goes on to the captures or the end
\* check and never to another battle or target choice, and the result
\* changes none of the candidates that were not chosen.
C16_OneBattle ==
    [][/\ (pc' = "battle" /\ pc # "battle"
              => /\ pc \in {"awaitMove", "rivalThink", "selectTarget"}
                 /\ battle'.attackerCellIndex = move'.cellIndex
                 /\ battle'.defenderCellIndex \in SeqToSet(move'.battles)
                 /\ pc # "selectTarget" => fieldCards[move'.cellIndex] = NoCard
                 /\ pc = "selectTarget" => move' = move)
       /\ (pc' = "selectTarget" /\ pc # "selectTarget"
              => /\ pc = "awaitMove"
                 /\ fieldCards[move'.cellIndex] = NoCard)
       /\ (pc = "selectTarget" => pc' \in {"selectTarget", "battle"})
       /\ (pc = "battle" => pc' \in {"battle", "battleApply", "captures"})
       /\ (pc = "battleApply"
              => /\ pc' \in {"battleApply", "captures", "endCheck"}
                 /\ \A c \in SeqToSet(move.battles) \ {battle.defenderCellIndex} :
                       fieldCards'[c] = fieldCards[c])
       /\ (pc \in {"captures", "combo", "endCheck"}
              => pc' \notin {"selectTarget", "battle", "battleApply"})]_vars

\* C16, witness: a move with two battle candidates has won its one battle
\* and gone on to the captures; the other candidate is still the other
\* side's card.
C16_Witness ==
    /\ pc = "captures"
    /\ lastEvent = "battle_win"
    /\ Len(move.battles) >= 2
    /\ Len(move.battleCapturedCells) = 1
    /\ \E c \in SeqToSet(move.battles) :
          /\ c \notin SeqToSet(move.battleCapturedCells)
          /\ fieldCards[c].owner # move.owner

\* C18.  Coin flip by mode: in the hardcore mode the first turn of a match
\* is always the player's; in the standard and the hard mode start can give
\* the first turn to the player and can give it to the rival.
C18_CoinFlip ==
    /\ gameMode = "hardcore" /\ (pc = "firstTurn" \/ turnNumber = 1)
          => currentTurn = "player"
    /\ pc = "init"
          => /\ ENABLED (Start /\ currentTurn' = "player")
             /\ gameMode = "hardcore" => ~ENABLED (Start /\ currentTurn' = "rival")
             /\ gameMode # "hardcore" => ENABLED (Start /\ currentTurn' = "rival")

\* C18, witness: a match in the hard mode whose first turn is the rival's.
C18_Witness ==
    /\ gameMode = "hard"
    /\ turnNumber = 1
    /\ currentTurn = "rival"
    /\ pc = "rivalThink"
    /\ activeParty.saved
    /\ activeParty.turnNumber = 0

\* The ids of the used cards of two hands.
UsedIds(hand1, hand2) ==
    { hand1[i].id : i \in { k \in 1 .. Len(hand1) : hand1[k].used } }
        \cup { hand2[i].id : i \in { k \in 1 .. Len(hand2) : hand2[k].used } }

\* The ids of the cards on a field.
FieldIds(field) == { field[c].id : c \in { k \in Cells : field[k] # NoCard } }

\* C19.  Snapshots only at turn boundaries: the snapshot is written only by
\* start, before the first turn, and by the end check, when the battle, the
\* captures and the combo of the move are over; no step between a placement
\* and the end of its resolution writes it; what is written is the field
\* and the hands as they are at that moment; and in every snapshot the used
\* hand cards are exactly the cards on the stored field.  (The removal of
\* the snapshot when the finished match is saved writes no snapshot.)
C19_SnapshotAtBoundaries ==
    /\ [](activeParty.saved
             => UsedIds(activeParty.playerHand, activeParty.opponentHand)
                    = FieldIds(activeParty.fieldCards))
    /\ [][activeParty' # activeParty /\ activeParty' # NoSnapshot
             => /\ pc \in {"init", "endCheck"}
                /\ pc = "init" => pc' = "firstTurn" /\ turnNumber' = 0
                /\ activeParty'.saved
                /\ activeParty'.fieldCards = fieldCards
                /\ activeParty'.playerHand = playerHand
                /\ activeParty'.opponentHand = opponentHand
                /\ fieldCards' = fieldCards
                /\ playerHand' = playerHand
                /\ opponentHand' = opponentHand]_vars

\* C19, witness: the end check of a move that captured a card has written
\* the snapshot: a player's card is stored on the field as the opponent's.
C19_Witness ==
    /\ activeParty.saved
    /\ activeParty.turnNumber >= 2
    /\ pc \in {"awaitMove", "rivalThink"}
    /\ activeParty.fieldCards = fieldCards
    /\ \E c \in Cells :
          /\ activeParty.fieldCards[c] # NoCard
          /\ activeParty.fieldCards[c].id \in { PlayerDeck[i].id : i \in 1 .. Len(PlayerDeck) }
          /\ activeParty.fieldCards[c].owner = "opponent"

\* C17.  Skip rule: a turn is started only for a side that still has an
\* unused card while an open cell remains; the engine never waits for the
\* player's move, and never starts the rival's turn, with that side's hand
\* exhausted and the other side still holding a card.
C17_SkipRule ==
    EmptyCells(fieldCards, unavailableCells) # {}
        => /\ pc = "awaitMove" /\ UnusedIndices(opponentHand) # {}
                 => UnusedIndices(playerHand) # {}
           /\ pc = "rivalThink" /\ UnusedIndices(playerHand) # {}
                 => UnusedIndices(opponentHand) # {}

\* C17, witness: the end check after the player's last card has started the
\* rival's turn; the rival still has a card and the player has none.
C17_Witness ==
    /\ pc = "rivalThink"
    /\ UnusedIndices(playerHand) = {}
    /\ UnusedIndices(opponentHand) # {}
    /\ activeParty.saved
    /\ activeParty.currentTurn = "player"
    /\ UnusedIndices(activeParty.playerHand) = {}

\* C20.  Stored turn owner: whenever a side's turn is running, that side
\* being the one due to move, the snapshot stored last names that side as
\* its turn owner, so that a match resumed from it continues with the side
\* that was due to move.
C20_StoredTurnOwner ==
    activeParty.saved /\ pc \in {"awaitMove", "rivalThink"}
        => activeParty.currentTurn = currentTurn

\* C20, witness: a resumed match in which the player has placed two cards
\* and the opponent, with all its cards unused, none.
C20_Witness ==
    /\ Cardinality(UnusedIndices(playerHand)) = HAND_SIZE - 2
    /\ Cardinality(UnusedIndices(opponentHand)) = HAND_SIZE
    /\ Cardinality(CardsOnField(fieldCards)) = 2
    /\ pc = "endCheck"
    /\ move.owner = "player"

\* What the engine goes on with after a save: the turn, the step of the
\* chain, the screen's mode and the result.
EngineOutcome ==
    <<currentTurn, turnNumber, pc, mode, isGameActive, isProcessingMove, result, lastEvent>>

\* A step of start or of the end check leaves the field and the hands as
\* they are, stores the new snapshot or keeps the old one, and goes on as
\* the same step does with a successful save and with a failed one.
SaveStepIsolated ==
    pc \in {"init", "endCheck"} /\ pc' # pc
         => /\ fieldCards' = fieldCards
            /\ playerHand' = playerHand
            /\ opponentHand' = opponentHand
            /\ unavailableCells' = unavailableCells
            /\ activeParty' \in {activeParty, Snapshot, SnapshotOf(currentTurn', 0, TRUE)}
            /\ \A after \in {EngineOutcome'} :
                  /\ (pc = "init"
                        => /\ ENABLED (StartSaving(TRUE) /\ EngineOutcome' = after)
                           /\ ENABLED (StartSaving(FALSE) /\ EngineOutcome' = after
                                         /\ activeParty' = activeParty))
                  /\ (pc = "endCheck"
                        => /\ ENABLED (checkGameEndSaving(TRUE) /\ EngineOutcome' = after)
                           /\ ENABLED (checkGameEndSaving(FALSE) /\ EngineOutcome' = after
                                         /\ activeParty' = activeParty))

\* C21.  Save failure isolation: start and the end check can always go on
\* with a failed save; a step of either leaves the field and the hands as
\* they are; a failed save leaves the stored snapshot as it is; and whatever
\* the step goes on with (turn owner, turn number, next turn or match end and
\* its result) is what the same step does with a successful save and with a
\* failed one.
C21_SaveFailureIsolation ==
    /\ [](/\ pc = "init" => ENABLED StartSaving(FALSE)
          /\ pc = "endCheck" => ENABLED checkGameEndSaving(FALSE))
    /\ [][SaveStepIsolated]_vars

\* C21, witness: the save of the end check of the first move has failed, the
\* stored snapshot is still the one of the start, and the next turn runs.
C21_Witness ==
    /\ turnNumber = 2
    /\ pc \in {"awaitMove", "rivalThink"}
    /\ activeParty.saved
    /\ activeParty.turnNumber = 0
    /\ activeParty.fieldCards # fieldCards

GrantedIds == DOMAIN userCards \ DOMAIN InitialUserCards
RemovedIds == DOMAIN InitialUserCards \ DOMAIN userCards

\* The cells whose card began in the opponent's hand and is the player's now.
WonCells ==
    { c \in Cells : /\ fieldCards[c] # NoCard
                    /\ fieldCards[c].owner = "player"
                    /\ \E i \in 1 .. Len(OpponentDeck) : OpponentDeck[i].id = fieldCards[c].id }

\* C23.  Win reward: once the progress of a won match is saved, exactly one
\* card has joined the player's collection and none has left it; the card
\* began in the opponent's hand, lies on the field and is the player's at the
\* end; taken without the selection of the screen, it is the card of the
\* first such cell.
C23_WinReward ==
    pc = "saved" /\ result.winner = "player"
        => /\ Cardinality(GrantedIds) = 1
           /\ RemovedIds = {}
           /\ \A id \in GrantedIds : \E c \in WonCells : fieldCards[c].id = id
           /\ lastEvent = "reward_first"
                 => \A id \in GrantedIds :
                       \E c \in WonCells : /\ fieldCards[c].id = id
                                           /\ \A d \in WonCells : c <= d

\* C23, witness: a won match whose reward was taken without the selection,
\* with more than one card to choose from.
C23_Witness ==
    /\ pc = "saved"
    /\ result.winner = "player"
    /\ lastEvent = "reward_first"
    /\ Cardinality(WonCells) >= 2
    /\ Cardinality(GrantedIds) = 1

\* C23, witness of the choice: the player took a card that is not the first.
C23_ChoiceWitness ==
    /\ pc = "saved"
    /\ lastEvent = "reward_selected"
    /\ \E c \in WonCells : /\ fieldCards[c].id \in GrantedIds
                           /\ \E d \in WonCells : d < c

\* The cells whose card began in the player's hand, was played and is the
\* opponent's now.
LostCells ==
    { c \in Cells : /\ fieldCards[c] # NoCard
                    /\ fieldCards[c].owner = "opponent"
                    /\ \E i \in 1 .. Len(playerHand) :
                          playerHand[i].used /\ playerHand[i].id = fieldCards[c].id }

\* C24.  Loss penalty: once the progress of a lost match is saved, exactly
\* one card has left the player's collection and none has joined it; the
\* card is a used card of the player that the opponent owns on the field,
\* no other such card has a greater total value, and none of equal total
\* value has a greater attack value.
C24_LossPenalty ==
    pc = "saved" /\ result.winner = "opponent"
        => /\ Cardinality(RemovedIds) = 1
           /\ GrantedIds = {}
           /\ \A id \in RemovedIds :
                 \E c \in LostCells :
                    /\ fieldCards[c].id = id
                    /\ \A d \in LostCells :
                          LET taken == computeCardScore(fieldCards[c])
                              other == computeCardScore(fieldCards[d])
                          IN  \/ taken.totalValue > other.totalValue
                              \/ /\ taken.totalValue = other.totalValue
                                 /\ taken.attack >= other.attack

\* C24, witness: a lost match in which the attack value decided: another
\* candidate has the total value of the card taken and a smaller attack.
C24_Witness ==
    /\ pc = "saved"
    /\ result.winner = "opponent"
    /\ lastEvent = "card_lost"
    /\ \E c \in LostCells, d \in LostCells :
          /\ fieldCards[c].id \in RemovedIds
          /\ computeCardScore(fieldCards[d]).totalValue
                = computeCardScore(fieldCards[c]).totalValue
          /\ computeCardScore(fieldCards[d]).attack
                < computeCardScore(fieldCards[c]).attack

\* C25.  Draw: in a match that ended with equal scores no card joins and no
\* card leaves the player's collection, the save of the progress included.
C25_DrawKeepsCollection ==
    result.winner = "draw" => GrantedIds = {} /\ RemovedIds = {}

\* C25, witness: the progress of a drawn match is saved while the field
\* holds cards that a winner could have taken from either side.
C25_Witness ==
    /\ pc = "saved"
    /\ lastEvent = "draw_saved"
    /\ result.playerScore = result.opponentScore
    /\ activeParty = NoSnapshot
    /\ WonCells # {}
    /\ LostCells # {}

\* A step of the post-match progression: it changes no card of the
\* opponent's hand and no card on the field, and a card of the player's hand
\* only if it was used and below level 2, by raising its level by one.
LevelUpStep ==
    /\ \A i \in 1 .. Len(playerHand) :
          playerHand'[i].cardLevel # playerHand[i].cardLevel
             => /\ pc = "ended"
                /\ playerHand[i].used
                /\ playerHand[i].cardLevel < 2
                /\ playerHand'[i].cardLevel = playerHand[i].cardLevel + 1
    /\ pc = "ended" /\ pc' = "outcome"
          => /\ opponentHand' = opponentHand
             /\ fieldCards' = fieldCards
             /\ \A i \in 1 .. Len(playerHand) :
                   playerHand'[i] # playerHand[i]
                      => playerHand[i].used /\ playerHand[i].cardLevel < 2

\* C26.  Level-up bounds: no card's level exceeds 2, in a hand, on the field
\* or in the collection; a level changes only in the post-match progression,
\* only for a used card of the player's hand below level 2, and only by one;
\* the progression modifies no opponent card and no unused or top-level card.
C26_LevelUpBounds ==
    /\ [](/\ \A i \in 1 .. Len(playerHand) : playerHand[i].cardLevel <= 2
          /\ \A i \in 1 .. Len(opponentHand) : opponentHand[i].cardLevel <= 2
          /\ \A c \in Cells : fieldCards[c].cardLevel <= 2
          /\ \A id \in DOMAIN userCards : userCards[id] <= 2)
    /\ [][LevelUpStep]_vars

\* C26, witness: the progression raised one card from level 0 and one from
\* level 1 and left the used card of level 2 alone.
C26_Witness ==
    /\ pc = "outcome"
    /\ \E i, j, k \in 1 .. Len(playerHand) :
          /\ levelUp[i] = "raised" /\ playerHand[i].cardLevel = 1
          /\ levelUp[j] = "raised" /\ playerHand[j].cardLevel = 2
          /\ levelUp[k] = "skipped" /\ playerHand[k].used
                /\ PlayerDeck[k].cardLevel = 2
                /\ playerHand[k] = [PlayerDeck[k] EXCEPT !.used = TRUE]

\* A step of the progression in which the generator failed for a card: the
\* card is left exactly as it was, and the result and the field, from which
\* the scores are counted, stay.
FailedLevelUpStep ==
    pc = "ended" /\ pc' = "outcome"
        => /\ result' = result
           /\ fieldCards' = fieldCards
           /\ \A i \in 1 .. Len(playerHand) :
                 levelUp'[i] = "failed" => playerHand'[i] = playerHand[i]

\* C27.  Level-up failure: when the generator throws or returns nothing for
\* a card, the card keeps its level, stats and arrows; the cards after it
\* are still processed, that is, a later card can still be raised in the
\* same run; the winner and the scores are unaffected.
C27_LevelUpFailure ==
    /\ [](pc = "ended"
             => \A i, j \in FirstN({ k \in 1 .. Len(playerHand) :
                                       playerHand[k].used /\ playerHand[k].cardLevel < 2 },
                                   MaxLevelUpRolls) :
                   i < j => ENABLED (/\ processLevelUp
                                     /\ levelUp'[i] = "failed"
                                     /\ playerHand'[i] = playerHand[i]
                                     /\ levelUp'[j] = "raised"
                                     /\ playerHand'[j].cardLevel = playerHand[j].cardLevel + 1
                                     /\ result' = result))
    /\ [][FailedLevelUpStep]_vars

\* C27, witness: in one run of the progression the generator failed for a
\* card, which kept its level, and a later card was raised.
C27_Witness ==
    /\ pc = "outcome"
    /\ result.winner # "none"
    /\ \E i, j \in 1 .. Len(playerHand) :
          /\ i < j
          /\ levelUp[i] = "failed"
          /\ playerHand[i] = [PlayerDeck[i] EXCEPT !.used = TRUE]
          /\ levelUp[j] = "raised"
          /\ playerHand[j].cardLevel = PlayerDeck[j].cardLevel + 1

\* A wave of the combo that is followed by another wave has processed cells
\* that no earlier wave had processed, so the waves of a move are finitely
\* many.
ComboAdvances ==
    pc = "combo" /\ pc' = "combo" /\ combo' # combo
        => Cardinality(combo'.processedCells) > Cardinality(combo.processedCells)

AlternationStep ==
    /\ turnNumber' # turnNumber /\ pc \notin {"firstTurn", "resumed"} /\ pc' # "resumed"
          => /\ turnNumber' = turnNumber + 1
             /\ currentTurn' # currentTurn
    /\ pc = "awaitMove" /\ pc' \notin {"awaitMove", "resumed"}
          => /\ currentTurn = "player"
             /\ Cardinality(UnusedIndices(playerHand'))
                   = Cardinality(UnusedIndices(playerHand)) - 1
             /\ opponentHand' = opponentHand
    /\ pc = "rivalThink" /\ pc' \notin {"rivalThink", "resumed"}
          => /\ currentTurn = "rival"
             /\ playerHand' = playerHand
             /\ \/ Cardinality(UnusedIndices(opponentHand'))
                      = Cardinality(UnusedIndices(opponentHand)) - 1
                \/ /\ opponentHand' = opponentHand
                   /\ fieldCards' = fieldCards
                   /\ pc' = "endCheck"
                   /\ \/ UnusedIndices(opponentHand) = {}
                      \/ EmptyCells(fieldCards, unavailableCells) = {}
    /\ pc = "endCheck" /\ move = NoMove /\ turnNumber' # turnNumber /\ pc' # "resumed"
          => /\ currentTurn = "rival"
             /\ currentTurn' = "player"
             /\ UnusedIndices(opponentHand) = {}

\* C29.  Turn alternation: from the start of a match to its end the turn
\* owner is the player or the rival; within a session the turns started
\* alternate between the sides and a turn is left without a placement only
\* by a rival without an unused card (or a field without an open cell), so
\* two consecutive placements of a session are made by the same side only
\* if the other side had no unused card at the end check between them.
C29_TurnAlternation ==
    /\ [](pc # "init" => currentTurn \in {"player", "rival"})
    /\ [][AlternationStep]_vars

\* C29, witness: the player places a card in the turn after a turn of the
\* rival that placed none, the eleventh turn of a session of ten placements:
\* the placement before this one was the player's too.
C29_Witness ==
    /\ lastEvent = "player_move"
    /\ turnNumber = 2 * HAND_SIZE + 1
    /\ currentTurn = "player"
    /\ UnusedIndices(opponentHand) = {}
    /\ UnusedIndices(playerHand) = {}

\* The cells whose card changes its owner in a step.
ChangedOwners ==
    { c \in Cells : /\ fieldCards[c] # NoCard
                    /\ fieldCards'[c] # NoCard
                    /\ fieldCards'[c].owner # fieldCards[c].owner }

\* The positions of a placement's resolution follow one another in the
\* order analysis, target choice, battle, instant captures, combo, end check.
ResolutionOrder ==
    pc' # pc =>
       CASE pc \in {"awaitMove", "rivalThink"}
               -> pc' \in {"selectTarget", "battle", "captures", "endCheck"}
         [] pc = "selectTarget" -> pc' = "battle"
         [] pc = "battle" -> pc' \in {"battleApply", "captures"}
         [] pc = "battleApply" -> pc' \in {"captures", "endCheck"}
         [] pc = "captures" -> pc' \in {"combo", "endCheck"}
         [] pc = "combo" -> pc' = "endCheck"
         [] pc = "endCheck" -> pc' \in {"switchTurn", "awaitMove", "rivalThink", "ended"}
         [] OTHER -> TRUE

\* What each step of a placement's resolution does to the field.
ResolutionStep ==
    /\ ResolutionOrder
    \* the placement: the card is put down, no owner changes, and the
    \* conflicts are those of the analysis of the field with the new card
    /\ pc \in {"awaitMove", "rivalThink"} /\ pc' \notin {pc, "endCheck"}
          => /\ ChangedOwners = {}
             /\ \A c \in Cells \ {move'.cellIndex} : fieldCards'[c] = fieldCards[c]
             /\ fieldCards[move'.cellIndex] = NoCard
             /\ fieldCards'[move'.cellIndex] # NoCard
             /\ LET conflicts == analyzeNeighbors(fieldCards', move'.cellIndex, move'.owner)
                IN  /\ move'.captures = DefenderCells(SelectSeq(conflicts, IsCapture))
                    /\ move'.battles = DefenderCells(SelectSeq(conflicts, IsBattle))
             /\ pc' = "captures" <=> move'.battles = <<>>
             /\ pc' = "selectTarget" <=> Len(move'.battles) > 1 /\ move'.owner = "player"
    \* the target is chosen and the rolls are made on an untouched field
    /\ pc \in {"selectTarget", "battle"}
          => /\ fieldCards' = fieldCards
             /\ pc' = "battle" => battle'.defenderCellIndex \in SeqToSet(move.battles)
    \* the battle changes the owner of the defender or of the attacker, and
    \* after a lost battle no capture and no combo follows
    /\ pc = "battleApply" /\ pc' # pc
          => /\ \/ ChangedOwners = {battle.defenderCellIndex} /\ pc' = "captures"
                \/ ChangedOwners = {battle.attackerCellIndex} /\ pc' = "endCheck"
             /\ battle.attackerCellIndex = move.cellIndex
             /\ battle.defenderCellIndex \in SeqToSet(move.battles)
    \* the instant captures come when the battle of the move, if any, is won
    /\ pc = "captures"
          => /\ battle = NoBattle
             /\ ~move.attackerLostBattle
             /\ move.battles # <<>> => Len(move.battleCapturedCells) = 1
             /\ combo = NoCombo
             /\ ChangedOwners \subseteq SeqToSet(move.captures)
             /\ pc' # pc => /\ ChangedOwners = SeqToSet(move.captures)
                            /\ \A c \in ChangedOwners : fieldCards'[c].owner = move.owner
    \* the combo waves come after the captures
    /\ pc = "combo" => \A c \in ChangedOwners : fieldCards'[c].owner = move.owner
    \* nothing else changes an owner, and a turn starts from the end check only
    /\ pc \notin {"battleApply", "captures", "combo"} => ChangedOwners = {}
    /\ turnNumber' # turnNumber => pc \in {"firstTurn", "endCheck", "switchTurn"}
    /\ currentTurn' # currentTurn => pc \in {"init", "endCheck", "switchTurn"}

\* C30.  Resolution order within one placement: the conflict analysis comes
\* first, then the optional target choice and the single battle with its
\* change of owner, then the instant captures, then the combo waves, then
\* the end check; no instant capture is applied before the battle of the
\* same move is decided, and no turn starts before the combo has finished.
C30_ResolutionOrder == [][ResolutionStep]_vars

\* C30, witness: the end check of a move of the player that had a target
\* choice, a won battle, an instant capture and a combo capture.
C30_Witness ==
    /\ pc = "endCheck"
    /\ move.owner = "player"
    /\ Len(move.battles) > 1
    /\ Len(move.battleCapturedCells) = 1
    /\ move.captures # <<>>
    /\ combo.order # <<>>

\* The cells a wave of the combo processes: those of the wave that were not
\* processed before.
WaveCells == SeqToSet(combo.wave) \ combo.processedCells

\* The cells with a card of the other side that is adjacent to a card of the
\* wave in a direction in which the wave's card has an arrow.
ComboTargets ==
    { n \in Cells :
        /\ fieldCards[n] # NoCard
        /\ fieldCards[n].owner # move.owner
        /\ \E c \in WaveCells : \E k \in 1 .. Len(directions) :
              /\ directions[k].activeArrow \in fieldCards[c].arrows
              /\ getNeighborCell(c, directions[k]) = n }

\* A wave of the combo captures exactly those cards, with no roll and
\* whatever their arrows, changes nothing else on the field and hands the
\* captured cells on as the next wave.
ComboCaptures ==
    /\ \A n \in Cells :
          fieldCards'[n] = (IF n \in ComboTargets
                            THEN [fieldCards[n] EXCEPT !.owner = move.owner]
                            ELSE fieldCards[n])
    /\ SeqToSet(combo'.wave) = ComboTargets
    /\ combo'.processedCells = combo.processedCells \cup WaveCells
    /\ battle' = battle

\* C31 as the claim states it.  Combo capture rule: a wave captures every
\* card of the other side at which an arrow of one of its cards points, and
\* each captured card is processed in the next wave, whatever the mode.
C31_Original ==
    [][pc = "combo" /\ combo' # combo
          => /\ ComboCaptures
             /\ ComboTargets # {} => pc' = "combo"]_vars

\* C31, amended.  Combo capture rule: a wave of the combo captures, with no
\* roll and whatever the neighbour's arrows, every card of the other side
\* that is adjacent to one of the wave's cards in a direction of that card's
\* own arrow, and leaves every other cell untouched; in the standard and
\* hardcore modes the captured cards are processed in the next wave, in the
\* hard mode the chain ends with them unprocessed.
C31_ComboCapture ==
    [][pc = "combo" /\ combo' # combo
          => /\ ComboCaptures
             /\ ComboTargets # {} /\ gameMode # "hard" => pc' = "combo"
             /\ ComboTargets = {} \/ gameMode = "hard" => pc' = "endCheck"]_vars

\* C31, witness: a wave has captured a card that has an arrow pointing back
\* at the card that captured it (a placement there would have led to a
\* battle), and the captured card waits for the next wave.
C31_Witness ==
    /\ pc = "combo"
    /\ combo.processedCells # {}
    /\ \E n \in SeqToSet(combo.wave) : \E c \in combo.processedCells :
          \E k \in 1 .. Len(directions) :
             /\ getNeighborCell(c, directions[k]) = n
             /\ directions[k].activeArrow \in fieldCards[c].arrows
             /\ directions[k].reactiveArrow \in fieldCards[n].arrows
             /\ fieldCards[n].owner = move.owner

\* The pairs of an available empty cell and an unused card of a call of
\* calculateAiMove, a pair's score, and the order of the iteration.
AiPairs ==
    EmptyCells(probe.field, probe.unavailable) \X UnusedIndices(probe.aiHand)
AiScore(pair) == evaluateMove(probe.aiHand[pair[2]], pair[1], probe.field, probe.unavailable)
AiBefore(p, q) == p[1] < q[1] \/ (p[1] = q[1] /\ p[2] < q[2])

\* C32.  AI move selection: calculateAiMove returns a pair of an unused card
\* and an available empty cell whose evaluateMove score is maximal over all
\* such pairs and, among the pairs with that score, the first one in the
\* order cells ascending, cards in hand order; it returns no move when
\* there is no such pair.
C32_AiMoveSelection ==
    probe.fn = "calculateAiMove" /\ probe.done
        => IF AiPairs = {} THEN ~probe.result.found
           ELSE /\ probe.result.found
                /\ \E p \in AiPairs :
                      /\ probe.result.cellIndex = p[1]
                      /\ probe.result.cardId = probe.aiHand[p[2]].id
                      /\ probe.result.maxScore = AiScore(p)
                      /\ \A q \in AiPairs :
                            /\ AiScore(q) <= AiScore(p)
                            /\ AiScore(q) = AiScore(p) /\ q # p => AiBefore(p, q)

\* C32, witness: a call on a field with cards of the player has returned a
\* move that captures or fights, another pair has the same score and comes
\* later, and a pair of an earlier cell has a lower score.
C32_Witness ==
    /\ probe.fn = "calculateAiMove"
    /\ probe.done
    /\ probe.result.found
    /\ \E p \in AiPairs :
          /\ probe.result.cellIndex = p[1]
          /\ probe.result.cardId = probe.aiHand[p[2]].id
          /\ conflictScore(probe.aiHand[p[2]], p[1], probe.field, "opponent", 1).score > 0
          /\ \E q \in AiPairs : q # p /\ AiScore(q) = AiScore(p)
          /\ \E q \in AiPairs : AiBefore(q, p) /\ AiScore(q) < AiScore(p)

\* The number of the arrows of the card at a cell that point at an adjacent
\* card of the player.
ComboPotentialAtPlayer(field, cell) ==
    Cardinality({ k \in 1 .. Len(directions) :
        /\ directions[k].activeArrow \in field[cell].arrows
        /\ getNeighborCell(cell, directions[k]) # NoCell
        /\ field[getNeighborCell(cell, directions[k])] # NoCard
        /\ field[getNeighborCell(cell, directions[k])].owner = "player" })

\* The weight of a candidate as the claim gives it.
ClaimedWeight(field, attackerCellIndex, cell) ==
    (getStatValue(field[attackerCellIndex].attackLevel)
        - resolveDefenseValue(field[attackerCellIndex], field[cell])) * 10
    + ComboPotentialAtPlayer(field, cell)

\* C33.  AI target selection: of several battle candidates the AI fights the
\* one that maximises (attackValue - defenseValue) * 10 + comboPotential,
\* comboPotential being the number of the candidate's arrows that point at
\* an adjacent card of the player; ties go to the first candidate in
\* direction order.
C33_TargetSelection ==
    probe.fn = "aiSelectsTarget" /\ probe.done
        => \E k \in 1 .. Len(probe.battles) :
              /\ probe.result = probe.battles[k]
              /\ \A j \in 1 .. Len(probe.battles) :
                    ClaimedWeight(probe.field, probe.attackerCellIndex, probe.battles[j])
                       <= ClaimedWeight(probe.field, probe.attackerCellIndex,
                                        probe.battles[k])
              /\ \A j \in 1 .. (k - 1) :
                    ClaimedWeight(probe.field, probe.attackerCellIndex, probe.battles[j])
                       < ClaimedWeight(probe.field, probe.attackerCellIndex,
                                       probe.battles[k])

\* C33, witness: the target returned has more arrows than the other
\* candidate, none of them pointing at a card of the player, while an arrow
\* of the other candidate, whose defense is the same, does point at one.
C33_Witness ==
    /\ probe.fn = "aiSelectsTarget"
    /\ probe.done
    /\ Len(probe.battles) = 2
    /\ \E other \in SeqToSet(probe.battles) \ {probe.result} :
          /\ probe.field[other].mechanicalDefense
                = probe.field[probe.result].mechanicalDefense
          /\ Cardinality(probe.field[probe.result].arrows)
                > Cardinality(probe.field[other].arrows)
          /\ ComboPotentialAtPlayer(probe.field, probe.result) = 0
          /\ ComboPotentialAtPlayer(probe.field, other) = 1

\* C34.  Score and result: once the match has ended, playerScore is the
\* number of the field cards owned by the player, the two scores add up to
\* the number of the cards on the field, and the result is a win of the
\* player iff playerScore > opponentScore, a loss iff playerScore <
\* opponentScore and a draw iff the scores are equal.
C34_ScoreAndResult ==
    result # NoResult
        => /\ result.playerScore = Cardinality(PlayerCards(fieldCards))
           /\ result.playerScore + result.opponentScore
                 = Cardinality(CardsOnField(fieldCards))
           /\ result.winner \in {"player", "opponent", "draw"}
           /\ result.winner = "player" <=> result.playerScore > result.opponentScore
           /\ result.winner = "opponent" <=> result.playerScore < result.opponentScore
           /\ result.winner = "draw" <=> result.playerScore = result.opponentScore

\* C34, witness: a match has ended in a draw, five cards to five, with
\* captured cards on both sides.
C34_Witness ==
    /\ pc = "ended"
    /\ result.winner = "draw"
    /\ result.playerScore = HAND_SIZE
    /\ \E c \in PlayerCards(fieldCards) : fieldCards[c].id > HAND_SIZE
    /\ \E c \in CardsOnField(fieldCards) \ PlayerCards(fieldCards) :
          fieldCards[c].id <= HAND_SIZE

\* What the match may not change of a card: its id, arrows, attack value,
\* attack type, defenses and level.
Stats(card) ==
    <<card.id, card.arrows, card.attackLevel, card.attackType, card.mechanicalDefense,
      card.electricalDefense, card.cardLevel>>

\* The deck card with the id given: ids 1..5 are the player's, 6..10 the
\* opponent's.
DeckCard(id) ==
    IF id <= HAND_SIZE THEN PlayerDeck[id] ELSE OpponentDeck[id - HAND_SIZE]

\* The positions after the end of the match.
PostMatch == {"ended", "outcome", "selectWinner", "saved"}

\* A step leaves every hand card as it is or marks it used; a card on the
\* field keeps its cell and everything but its owner; a card that comes to
\* the field is a hand card that the step marks used.
ImmutableStep ==
    /\ \A i \in 1 .. HAND_SIZE :
          /\ playerHand'[i] \in {playerHand[i], [playerHand[i] EXCEPT !.used = TRUE]}
          /\ opponentHand'[i] \in {opponentHand[i], [opponentHand[i] EXCEPT !.used = TRUE]}
    /\ \A c \in Cells :
          IF fieldCards[c] # NoCard
          THEN fieldCards'[c] = [fieldCards[c] EXCEPT !.owner = fieldCards'[c].owner]
          ELSE \/ fieldCards'[c] = NoCard
               \/ \E i \in 1 .. HAND_SIZE :
                     \/ /\ ~playerHand[i].used /\ playerHand'[i].used
                        /\ fieldCards'[c] = FieldCard(playerHand[i], "player")
                     \/ /\ ~opponentHand[i].used /\ opponentHand'[i].used
                        /\ fieldCards'[c] = FieldCard(opponentHand[i], "opponent")

\* C35.  In-match immutability: until the match has ended every hand card
\* and every field card has the id, arrows, attack value, attack type,
\* defenses and level it was dealt with; no step of the match changes them,
\* a used flag only goes from false to true and a field card changes its
\* owner only; a hand card's level and stats change only in the level-up
\* step after the end of the match, and the collection's levels only when
\* the finished match is saved.
C35_InMatchImmutability ==
    /\ [](pc \notin PostMatch \ {"ended"}
             => /\ \A i \in 1 .. HAND_SIZE :
                      /\ Stats(playerHand[i]) = Stats(PlayerDeck[i])
                      /\ Stats(opponentHand[i]) = Stats(OpponentDeck[i])
                /\ \A c \in CardsOnField(fieldCards) :
                      Stats(fieldCards[c]) = Stats(DeckCard(fieldCards[c].id)))
    /\ [][/\ pc \notin PostMatch => ImmutableStep
          /\ (\E i \in 1 .. HAND_SIZE : Stats(playerHand'[i]) # Stats(playerHand[i]))
                => pc = "ended" /\ pc' = "outcome"
          /\ opponentHand' # opponentHand \/ fieldCards' # fieldCards => pc \notin PostMatch
          /\ userCards' # userCards => pc \in {"outcome", "selectWinner"}]_vars

\* C35, witness: at the end check of a move with a won battle, late in the
\* match, cards of both sides have changed owner, every card on the field
\* has the stats it was dealt with and the player's cards placed are marked
\* used.
C35_Witness ==
    /\ pc = "endCheck"
    /\ turnNumber >= 6
    /\ \E c \in Cells : fieldCards[c].id \in 1 .. HAND_SIZE /\ fieldCards[c].owner = "opponent"
    /\ \E c \in Cells : fieldCards[c].id > HAND_SIZE /\ fieldCards[c].owner = "player"
    /\ move.battleCapturedCells # <<>>
    /\ \A c \in CardsOnField(fieldCards) :
          /\ Stats(fieldCards[c]) = Stats(DeckCard(fieldCards[c].id))
          /\ fieldCards[c].id <= HAND_SIZE => playerHand[fieldCards[c].id].used

\* C36.  Chosen target is always a candidate: the cell that processBattles
\* fights is one of the cells classified as battles of the placement (and
\* none when there is no such cell); a cell submitted that is a candidate is
\* the one fought, and when the player submits a cell that is no candidate,
\* or the selector returns an id of no candidate, the first candidate in
\* direction order is fought.
C36_TargetIsCandidate ==
    probe.fn = "processBattles" /\ probe.done
        => IF probe.battles = <<>> THEN probe.result = NoCell
           ELSE /\ probe.result \in SeqToSet(probe.battles)
                /\ probe.field[probe.result].owner # probe.attackerOwner
                /\ Len(probe.battles) > 1
                   /\ (probe.attackerOwner = "player" \/ ~probe.useSelector)
                      => probe.result = (IF probe.answer \in SeqToSet(probe.battles)
                                         THEN probe.answer ELSE probe.battles[1])

\* C36, witness: with two candidates the player has submitted the cell of a
\* card of the other side that is no candidate, and the first candidate in
\* direction order is fought.
C36_Witness ==
    /\ probe.fn = "processBattles"
    /\ probe.done
    /\ probe.attackerOwner = "player"
    /\ probe.battles = <<6, 4>>
    /\ probe.answer = 1
    /\ probe.result = 6

\* A wave of the combo: in the hard mode it is the first one, seeded by the
\* won battle, and the end check follows whatever it captured; in the other
\* modes a further wave follows exactly when the wave captured a card.
WaveStep ==
    pc = "combo" /\ combo' # combo
        => IF gameMode = "hard"
           THEN /\ combo.processedCells = {}
                /\ combo.wave = move.battleCapturedCells
                /\ Len(combo.wave) = 1
                /\ pc' = "endCheck"
           ELSE /\ combo'.wave # <<>> => pc' = "combo"
                /\ combo'.wave = <<>> => pc' = "endCheck"

\* C37.  Hard-mode single wave: in the hard mode the combo of a move, seeded
\* by the won battle, has exactly one wave: when it is over, the cell of the
\* won battle is the only cell processed and the cards the wave captured
\* were not processed; in the standard and hardcore modes the waves go on
\* until one captures nothing.
C37_HardModeSingleWave ==
    /\ [](pc = "endCheck" /\ combo # NoCombo
             => IF gameMode = "hard"
                THEN /\ combo.order = move.battleCapturedCells
                     /\ combo.processedCells = SeqToSet(move.battleCapturedCells)
                     /\ SeqToSet(combo.wave) \cap combo.processedCells = {}
                ELSE combo.wave = <<>>)
    /\ [][WaveStep]_vars

\* C37, witness: in the hard mode the wave has captured a card that has an
\* arrow pointing at an adjacent card of the other side, and the end check
\* follows with that card not captured.
C37_Witness ==
    /\ gameMode = "hard"
    /\ pc = "endCheck"
    /\ \E c \in SeqToSet(combo.wave) : \E k \in 1 .. Len(directions) :
          LET n == getNeighborCell(c, directions[k])
          IN  /\ directions[k].activeArrow \in fieldCards[c].arrows
              /\ n # NoCell
              /\ fieldCards[n] # NoCard
              /\ fieldCards[c].owner = move.owner
              /\ fieldCards[n].owner # move.owner

\* The cells whose card came to the moving side in the move that is being
\* closed: the won battle's cell, the instant captures and the cells the
\* combo processed (its seeds and the cards its waves captured).
CapturedInMove ==
    IF move.attackerLostBattle THEN {}
    ELSE SeqToSet(move.battleCapturedCells) \cup SeqToSet(move.captures)
            \cup SeqToSet(combo.order) \cup SeqToSet(combo.wave)

\* C38.  Combo closure in the standard and hardcore modes: at the end check
\* of a move every card that came to the moving side in that move (by the
\* won battle, by an instant capture or by the combo) is owned by it, and
\* none of them has an arrow pointing at an adjacent card of the other side.
C38_ComboClosure ==
    pc = "endCheck" /\ gameMode # "hard" /\ move.cellIndex # NoCell
        => \A c \in CapturedInMove :
              /\ fieldCards[c] # NoCard
              /\ fieldCards[c].owner = move.owner
              /\ \A k \in 1 .. Len(directions) :
                    LET n == getNeighborCell(c, directions[k])
                    IN  directions[k].activeArrow \in fieldCards[c].arrows /\ n # NoCell
                           => fieldCards[n] = NoCard \/ fieldCards[n].owner = move.owner

\* C38, witness: outside the hard mode a move is closed in which the combo
\* captured a card that was no seed, through an arrow of a captured card,
\* while the other side still owns a card on the field.
C38_Witness ==
    /\ pc = "endCheck"
    /\ gameMode # "hard"
    /\ move.captures # <<>>
    /\ \E n \in SeqToSet(combo.order) \ SeqToSet(move.battleCapturedCells \o move.captures) :
          \E c \in SeqToSet(move.captures) : \E k \in 1 .. Len(directions) :
             /\ getNeighborCell(c, directions[k]) = n
             /\ directions[k].activeArrow \in fieldCards[c].arrows
             /\ fieldCards[n].owner = move.owner
    /\ \E c \in CardsOnField(fieldCards) : fieldCards[c].owner # move.owner

\* The cards on the field that began in the hand given.
CardsFromHand(hand) ==
    { c \in CardsOnField(fieldCards) : \E i \in 1 .. Len(hand) : hand[i].id = fieldCards[c].id }

\* C39.  Reward candidates exist: in a match that ended with the five cards
\* of each hand on the field, the winning player owns a card that began in
\* the opponent's hand and the winning opponent owns one that began in the
\* player's hand, so that the candidates of the reward or of the penalty are
\* never empty and no match is saved without its card.
C39_RewardCandidates ==
    /\ pc \in {"ended", "outcome"}
       /\ Cardinality(CardsFromHand(playerHand)) = HAND_SIZE
       /\ Cardinality(CardsFromHand(opponentHand)) = HAND_SIZE
          => /\ result.winner = "player"
                => /\ \E c \in CardsFromHand(opponentHand) : fieldCards[c].owner = "player"
                   /\ candidateCards(fieldCards, opponentHand, "player") # <<>>
             /\ result.winner = "opponent"
                => /\ \E c \in CardsFromHand(playerHand) : fieldCards[c].owner = "opponent"
                   /\ candidateCards(fieldCards, playerHand, "opponent") # <<>>
    /\ lastEvent \notin {"no_reward", "no_penalty"}

\* C39, witness: a match is won with the smallest margin, six cards to four,
\* although one card of the player's hand is the opponent's: the win rests
\* on the two cards of the opponent's hand that are the player's, the
\* candidates of the reward.
C39_Witness ==
    /\ pc = "outcome"
    /\ result.winner = "player"
    /\ result.playerScore = HAND_SIZE + 1
    /\ Cardinality(CardsFromHand(opponentHand)) = HAND_SIZE
    /\ Len(candidateCards(fieldCards, opponentHand, "player")) = 2
    /\ \E c \in CardsFromHand(playerHand) : fieldCards[c].owner = "opponent"

\* The cells that the arrows of a prediction point at.
ArrowTargets(arrows) == { arrows[i].toIndex : i \in 1 .. Len(arrows) }

\* The cells whose card has another owner on the field after than before.
OwnerChanges(before, after) ==
    { c \in Cells : before[c] # NoCard /\ after[c].owner # before[c].owner }

\* C40.  The prediction agrees with the engine: for a placement of the
\* player's card on an available empty cell that meets no battle, in the
\* standard mode, the cells that the arrows of calculateOutcome point at are
\* the cells whose card changes owner when the move is played, and each of
\* them becomes the player's.
C40_PredictionAgrees ==
    probe.fn = "calculateOutcome" /\ probe.done /\ probe.legal
    /\ probe.battles = <<>> /\ probe.gameMode = "standard"
        => /\ ArrowTargets(probe.result.arrows) = OwnerChanges(probe.placed, probe.played)
           /\ \A c \in ArrowTargets(probe.result.arrows) : probe.played[c].owner = "player"
           /\ Len(probe.result.arrows) = Cardinality(ArrowTargets(probe.result.arrows))
           /\ probe.result.outcomeType
                 = (IF probe.result.arrows = <<>> THEN "none" ELSE "safe")

\* C40, witness: a move without battle in the standard mode whose combo
\* goes three cards deep and reaches a card by two ways, while a card of the
\* opponent is left: the prediction has an arrow for each of the four
\* captured cards.
C40_Witness ==
    /\ probe.fn = "calculateOutcome"
    /\ probe.done
    /\ probe.legal
    /\ probe.battles = <<>>
    /\ probe.gameMode = "standard"
    /\ OwnerChanges(probe.placed, probe.played) = {6, 9, 10, 11}
    /\ ArrowTargets(probe.result.arrows) = {6, 9, 10, 11}
    /\ {"arrowBottom"} \subseteq probe.field[6].arrows
    /\ {"arrowRight"} \subseteq probe.field[9].arrows
    /\ probe.played[7].owner = "opponent"
====
